---------------------------- MODULE Spec2Model ----------------------------
(***************************************************************************)
(* CartridgeBUS: the bankswitched cartridge with datastreams, fast jump,   *)
(* bus stuffing and music voices.  The cartridge's fields are the          *)
(* variables; every handler (peek, poke, bank, patch, busOverdrive,        *)
(* readFromDatastream ...) is an operator that maps a record of the fields *)
(* to the record after the call, and an action that applies it.            *)
(*                                                                         *)
(* A uInt32 is a pair <<hi, lo>> of 16-bit halves (TLC's integers are      *)
(* 32-bit signed); all uInt32 arithmetic is modulo 2^32 on the halves.     *)
(***************************************************************************)
EXTENDS Integers, Sequences, FiniteSets, TLC

\* ------------------------------------------------------------------ bounds

\* Calls made on the cartridge in one run of Spec.
MaxSteps == 4

\* Table stores made in one run of SpecTable.
MaxStores == 2

\* Calls made on the cartridge in one run of SpecCommand.
MaxCommands == 5

\* The capacity of the rewind list, set in the class declaration; the code
\* relies only on its being a positive constant.
MAX_SIZE == 3

\* --------------------------------------------------------------- constants

DSxPTR == 1752
DSxINC == 1824
DSMAPS == 1888
WAVEFORM == 2036
DSRAM == 2048
COMMSTREAM == 16
JUMPSTREAM == 17

\* myBUSRAM[8192], myImage[32768]
RamSize == 8192
ImageSize == 32768


\* ------------------------------------------------------- 32-bit arithmetic

W32(hi, lo) == <<hi, lo>>
Hi(w) == w[1]
Lo(w) == w[2]
Zero32 == <<0, 0>>

\* a + b modulo 2^32
Add32(a, b) ==
  LET s == Lo(a) + Lo(b)
  IN  <<(Hi(a) + Hi(b) + (s \div 65536)) % 65536, s % 65536>>

\* a - b modulo 2^32
Sub32(a, b) ==
  LET d == Lo(a) - Lo(b)
      borrow == IF d < 0 THEN 1 ELSE 0
  IN  <<(Hi(a) - Hi(b) - borrow + 131072) % 65536, (d + 65536) % 65536>>

\* w >> n as an integer, for 1 <= n <= 31 (the result is below 2^31)
Shr32(w, n) ==
  IF n >= 16 THEN Hi(w) \div (2 ^ (n - 16))
  ELSE Hi(w) * (2 ^ (16 - n)) + (Lo(w) \div (2 ^ n))

\* w * k modulo 2^32, for 0 <= k < 2^15
Mul32(w, k) ==
  LET l == Lo(w) * k
      h == (Hi(w) * k) % 65536
  IN  <<(h + (l \div 65536)) % 65536, l % 65536>>

\* bitwise AND of two bytes
RECURSIVE BitAnd(_, _)
BitAnd(a, b) ==
  IF a = 0 \/ b = 0 THEN 0
  ELSE (a % 2) * (b % 2) + 2 * BitAnd(a \div 2, b \div 2)

\* --------------------------------------------------------------- ROM image

\* The 32K image handed to the constructor: 2K BUS driver (whose tail holds
\* the initial datastream tables), 2K C code, then seven 4K program banks.
\* Bytes not listed are $00 below 4096 and $EA (NOP) in the program banks.
BankBase(b) == 4096 + b * 4096

RomTable ==
  \* bank 6: JMP $0000 at $100, STY $10 at $200, JMP $0000 at $010
  (BankBase(6) + 256 :> 76) @@ (BankBase(6) + 257 :> 0) @@ (BankBase(6) + 258 :> 0) @@
  (BankBase(6) + 512 :> 132) @@ (BankBase(6) + 513 :> 16) @@
  (BankBase(6) + 16 :> 76) @@ (BankBase(6) + 17 :> 0) @@ (BankBase(6) + 18 :> 0) @@
  \* bank 6: $4C $00 in the last two bytes of the image ($FFE, $FFF)
  (BankBase(6) + 4094 :> 76) @@ (BankBase(6) + 4095 :> 0) @@
  \* bank 0: JMP $0000 on the bank-select hotspots $FF6.. , STY $30 at $200
  (BankBase(0) + 4086 :> 76) @@ (BankBase(0) + 4087 :> 0) @@ (BankBase(0) + 4088 :> 0) @@
  (BankBase(0) + 512 :> 132) @@ (BankBase(0) + 513 :> 48) @@
  \* driver: stream 0 pointer $00200000 increment $00010100,
  \*         stream 1 pointer $00300000 increment $00000080
  (DSxPTR + 2 :> 32) @@ (DSxINC + 1 :> 1) @@ (DSxINC + 2 :> 1) @@
  (DSxPTR + 4 + 2 :> 48) @@ (DSxINC + 4 :> 128) @@
  \* driver: address map of TIA register $10 is $00000010 (streams 0, 1, 0 ...)
  (DSMAPS + 16 * 4 :> 16) @@
  \* driver: jump stream pointer $00400000, command stream pointer $00500000
  (DSxPTR + JUMPSTREAM * 4 + 2 :> 64) @@ (DSxPTR + COMMSTREAM * 4 + 2 :> 80) @@
  (DSxINC + COMMSTREAM * 4 + 1 :> 2)

RomByte(i) ==
  IF i \in DOMAIN RomTable THEN RomTable[i]
  ELSE IF i < 4096 THEN 0 ELSE 234


\* ------------------------------------------------------------------- state

VARIABLES
  myImage,               \* ROM image: the cells patch() changed, over RomByte
  myBUSRAM,              \* 8K RAM: the cells that differ from RamReset
  myCurrentBank,         \* uInt16
  myBankLocked,          \* Cartridge::myBankLocked
  myBankChanged,         \* Cartridge::myBankChanged
  pageAccess,            \* System page table: offset of the bank mapped at $1040..$1FFF
  myBusOverdriveAddress, \* uInt16
  mySTYZeroPageAddress,  \* uInt16
  myJMPoperandAddress,   \* uInt16
  myFastJumpActive,      \* uInt8
  myMode,                \* uInt8
  mySystemCycles,        \* Int32
  myARMCycles,           \* Int32
  myFractionalClocks,    \* double: <<n, e>> is n/143183 - e/(143183 * 10^8) clocks
  myMusicCounters,       \* uInt32[3]
  myMusicFrequencies,    \* uInt32[3]
  myMusicWaveformSize,   \* uInt8[3]
  cycles,                \* mySystem->cycles()
  stream,                \* the Serializer: the fields save() wrote, in order
  budget,                \* calls left in this run
  last,                  \* the last call: operation, arguments, result
  myDataBusLocked,       \* System::myDataBusLocked
  position,              \* where the debugger is: see Positions
  mySize,                \* RewindManager::mySize
  myTop,                 \* RewindManager::myTop
  myStateList            \* RewindManager::myStateList[MAX_SIZE]

vars == <<myImage, myBUSRAM, myCurrentBank, myBankLocked, myBankChanged,
          pageAccess, myBusOverdriveAddress, mySTYZeroPageAddress,
          myJMPoperandAddress, myFastJumpActive, myMode, mySystemCycles,
          myARMCycles, myFractionalClocks, myMusicCounters,
          myMusicFrequencies, myMusicWaveformSize, cycles, stream, budget,
          last, myDataBusLocked, position, mySize, myTop, myStateList>>

\* What the debugger and its rewind manager hold, and the data bus lock.
\* position: between the release of the locks and the return of step(),
\* trace(), nextScanline() or nextFrame() the debugger is at "running"; in
\* reset(), saveState(), loadState(), rewindState() it is at the call they
\* make, named as the operation; otherwise it waits ("idle"), is in
\* setQuitState() ("quit"), or is not active ("emulation").
debugger == <<myDataBusLocked, position, mySize, myTop, myStateList>>

\* A slot of myStateList that holds no Serializer
nullptr == <<"nullptr">>

\* The state after the RewindManager constructor, outside the debugger
Constructed ==
  /\ myDataBusLocked = FALSE
  /\ position = "emulation"
  /\ mySize = 0
  /\ myTop = 0
  /\ myStateList = [i \in 0..(MAX_SIZE - 1) |-> nullptr]

\* The cartridge's fields as one record, the argument and result of a handler.
Cart ==
  [myImage |-> myImage, myBUSRAM |-> myBUSRAM, myCurrentBank |-> myCurrentBank,
   myBankLocked |-> myBankLocked, myBankChanged |-> myBankChanged,
   pageAccess |-> pageAccess, myBusOverdriveAddress |-> myBusOverdriveAddress,
   mySTYZeroPageAddress |-> mySTYZeroPageAddress,
   myJMPoperandAddress |-> myJMPoperandAddress,
   myFastJumpActive |-> myFastJumpActive, myMode |-> myMode,
   mySystemCycles |-> mySystemCycles, myARMCycles |-> myARMCycles,
   myFractionalClocks |-> myFractionalClocks,
   myMusicCounters |-> myMusicCounters,
   myMusicFrequencies |-> myMusicFrequencies,
   myMusicWaveformSize |-> myMusicWaveformSize]

\* ------------------------------------------------------------ memory cells

\* myBUSRAM after the constructor and reset(): driver copy, then zeros.
RamReset(a) == IF a < 2048 THEN RomByte(a) ELSE 0

RamAt(ram, a) == IF a \in DOMAIN ram THEN ram[a] ELSE RamReset(a)

RamPut(ram, a, v) ==
  IF v = RamReset(a)
  THEN [x \in (DOMAIN ram) \ {a} |-> ram[x]]
  ELSE [x \in (DOMAIN ram) \cup {a} |-> IF x = a THEN v ELSE ram[x]]

\* myImage[i] for i inside the image
ImageAt(img, i) == IF i \in DOMAIN img THEN img[i] ELSE RomByte(i)

ImagePut(img, i, v) ==
  IF v = RomByte(i)
  THEN [x \in (DOMAIN img) \ {i} |-> img[x]]
  ELSE [x \in (DOMAIN img) \cup {i} |-> IF x = i THEN v ELSE img[x]]

\* myImage[i]: a read past the 32768 bytes of the array yields whatever the
\* build placed there (g).
ImageRead(img, i, g) == IF i < ImageSize THEN ImageAt(img, i) ELSE g

\* myProgramImage[j], myProgramImage = myImage + 4096
ProgramRead(img, j, g) == ImageRead(img, 4096 + j, g)

\* myDisplayImage[j], myDisplayImage = myBUSRAM + DSRAM
DisplayRead(ram, j, g) == IF DSRAM + j < RamSize THEN RamAt(ram, DSRAM + j) ELSE g

\* Four little-endian bytes at base + index*4 as a uInt32.
GetWord(ram, base, index) ==
  W32(RamAt(ram, base + index * 4 + 3) * 256 + RamAt(ram, base + index * 4 + 2),
      RamAt(ram, base + index * 4 + 1) * 256 + RamAt(ram, base + index * 4 + 0))

PutWordBigEndian(ram, base, index, w) ==
  RamPut(RamPut(RamPut(RamPut(ram,
    base + index * 4 + 3, Lo(w) % 256),
    base + index * 4 + 2, Lo(w) \div 256),
    base + index * 4 + 1, Hi(w) % 256),
    base + index * 4 + 0, Hi(w) \div 256)
PutWord(ram, base, index, w) ==
  RamPut(RamPut(RamPut(RamPut(ram,
    base + index * 4 + 0, Lo(w) % 256),
    base + index * 4 + 1, Lo(w) \div 256),
    base + index * 4 + 2, Hi(w) % 256),
    base + index * 4 + 3, Hi(w) \div 256)

getDatastreamPointer(ram, index) == GetWord(ram, DSxPTR, index)
setDatastreamPointerNextEntry(ram, index, value) == PutWord(ram, DSxPTR, index + 1, value)
setDatastreamPointer(ram, index, value) == PutWord(ram, DSxPTR, index, value)
getDatastreamIncrement(ram, index) == GetWord(ram, DSxINC, index)
setDatastreamIncrement(ram, index, value) == PutWord(ram, DSxINC, index, value)
getAddressMap(ram, index) == GetWord(ram, DSMAPS, index)
setAddressMap(ram, index, value) == PutWord(ram, DSMAPS, index, value)

\* ------------------------------------------------------------ bank, patch

BUS_STUFF_ON_AllOnes(c) == c.myMode % 16 = 15
BUS_STUFF_ON(c) == c.myMode % 16 = 0
DIGITAL_AUDIO_ON(c) == c.myMode \div 16 = 0

\* bank(bank): [c: the fields after the call, ret: the result]
bankNoRemap(c, n) ==
  IF c.myBankLocked THEN [c |-> c, ret |-> FALSE]
  ELSE [c |-> [c EXCEPT !.myCurrentBank = n, !.myBankChanged = TRUE],
        ret |-> TRUE]
bank(c, n) ==
  IF c.myBankLocked THEN [c |-> c, ret |-> FALSE]
  ELSE [c |-> [c EXCEPT !.myCurrentBank = n,
                        !.pageAccess = (n * 4096) % 65536,
                        !.myBankChanged = TRUE],
        ret |-> TRUE]

\* patch(address, value); a store past the image is outside the cartridge.
patchUnlockedOnly(c, address, value) ==
  LET a == address % 4096
      i == 4096 + c.myCurrentBank * 4096 + a
  IN  IF a >= 64 /\ ~c.myBankLocked
      THEN [c |-> [c EXCEPT !.myImage = IF i < ImageSize
                                        THEN ImagePut(c.myImage, i, value)
                                        ELSE c.myImage,
                            !.myBankChanged = TRUE],
            ret |-> TRUE]
      ELSE [c |-> c, ret |-> FALSE]
patch(c, address, value) ==
  LET a == address % 4096
      i == 4096 + c.myCurrentBank * 4096 + a
  IN  IF a >= 64
      THEN [c |-> [c EXCEPT !.myImage = IF i < ImageSize
                                        THEN ImagePut(c.myImage, i, value)
                                        ELSE c.myImage,
                            !.myBankChanged = TRUE],
            ret |-> TRUE]
      ELSE [c |-> c, ret |-> FALSE]

\* ------------------------------------------------------------- datastreams

\* uInt16 increment = getDatastreamIncrement(index)
StreamIncrementByte(ram, index) == Lo(getDatastreamIncrement(ram, index)) % 256
StreamIncrement(ram, index) == Lo(getDatastreamIncrement(ram, index))

\* (increment << 12) of a 16-bit increment, as a uInt32
Shl12(inc) == W32(inc \div 16, (inc % 16) * 4096)

\* readFromDatastream(index): [ram: the RAM after the call, value: the byte]
readFromDatastream(ram, index) ==
  LET pointer == getDatastreamPointer(ram, index)
      increment == StreamIncrement(ram, index)
      value == RamAt(ram, DSRAM + Shr32(pointer, 20))
  IN  [ram   |-> setDatastreamPointer(ram, index, Add32(pointer, Shl12(increment))),
       value |-> value]

\* The map entry after one use: alldatastreams >>= 4; |= (datastream << 28)
RotateMap(alldatastreams) ==
  LET datastream == Lo(alldatastreams) % 16
  IN  W32((Hi(alldatastreams) \div 16) + datastream * 4096,
          (Lo(alldatastreams) \div 16) + (Hi(alldatastreams) % 16) * 4096)

\* busOverdrive(address): [c, overdrive: the mask ANDed into the written value]
busOverdriveSticky(c, address) ==
  LET map == address % 128
      hit == address = c.myBusOverdriveAddress /\ map <= 36
      alldatastreams == getAddressMap(c.myBUSRAM, map)
      rd == readFromDatastream(c.myBUSRAM, Lo(alldatastreams) % 16)
  IN  [c |-> [c EXCEPT !.myBUSRAM = IF hit
                                     THEN setAddressMap(rd.ram, map,
                                                        RotateMap(alldatastreams))
                                     ELSE c.myBUSRAM],
       overdrive |-> IF hit THEN rd.value ELSE 255]
busOverdrive(c, address) ==
  LET map == address % 128
      hit == address = c.myBusOverdriveAddress /\ map <= 36
      alldatastreams == getAddressMap(c.myBUSRAM, map)
      datastream == Lo(alldatastreams) % 16
      rd == readFromDatastream(c.myBUSRAM, datastream)
  IN  [c |-> [c EXCEPT !.myBUSRAM = IF hit
                                     THEN setAddressMap(rd.ram, map,
                                                        RotateMap(alldatastreams))
                                     ELSE c.myBUSRAM,
                       !.myBusOverdriveAddress = 255],
       overdrive |-> IF hit THEN rd.value ELSE 255]

\* -------------------------------------------------------------------- music

\* w >> n as a uInt32, for 0 <= n <= 31
Shr32W(w, n) ==
  IF n = 0 THEN w
  ELSE IF n >= 16 THEN W32(0, Hi(w) \div (2 ^ (n - 16)))
  ELSE W32(Hi(w) \div (2 ^ n),
           (Lo(w) \div (2 ^ n)) + (Hi(w) % (2 ^ n)) * (2 ^ (16 - n)))

\* Int32(x / 143183), truncated towards zero as a C++ conversion does
TruncDiv(x, d) == IF x >= 0 THEN x \div d ELSE -((-x) \div d)

\* Int32(x / d) for x just below the integer m (a fraction loaded from a
\* saved state lies just below a multiple of 1/143183)
TruncBelow(m, d) == IF m >= 1 THEN (m - 1) \div d ELSE -((-m) \div d)

\* updateMusicModeDataFetchers(): 20000.0 / 1193191.66666667 OSC clocks per
\* cycle is 2400 / 143183; the clocks are counted in 1/143183 of a clock.
updateMusicModeDataFetchersOnce(c, now) ==
  [c EXCEPT !.mySystemCycles = now,
            !.myMusicCounters =
               [x \in 0..2 |->
                  Add32(c.myMusicCounters[x],
                        Mul32(c.myMusicFrequencies[x],
                              (2400 * (now - c.mySystemCycles)) \div 143183))]]
updateMusicModeDataFetchers(c, now) ==
  LET cyc == now - c.mySystemCycles
      clocks == 2400 * cyc + c.myFractionalClocks[1]
      wholeClocks == IF c.myFractionalClocks[2] = 0
                     THEN TruncDiv(clocks, 143183)
                     ELSE TruncBelow(clocks, 143183)
      c1 == [c EXCEPT !.mySystemCycles = now,
                      !.myFractionalClocks = <<clocks - wholeClocks * 143183,
                                               c.myFractionalClocks[2]>>]
  IN  IF wholeClocks <= 0 THEN c1
      ELSE [c1 EXCEPT !.myMusicCounters =
              [x \in 0..2 |-> Add32(c.myMusicCounters[x],
                                     Mul32(c.myMusicFrequencies[x], wholeClocks))]]

\* getWaveform(index)
getWaveformUnclamped(ram, index) ==
  Sub32(GetWord(ram, WAVEFORM, index), W32(16384, 2048))
getWaveform(ram, index) ==
  LET result == Sub32(GetWord(ram, WAVEFORM, index), W32(16384, 2048))
  IN  IF Hi(result) > 0 \/ Lo(result) >= 4096 THEN Zero32 ELSE result

\* getSample()
getSample(ram) == GetWord(ram, WAVEFORM, 0)

\* AMPLITUDE with digital audio on: the packed sample nibble
DigitalSample(c, g) ==
  LET i == Add32(getSample(c.myBUSRAM), W32(0, Shr32(c.myMusicCounters[0], 21)))
      b == IF Hi(i) = 0 THEN ImageRead(c.myImage, Lo(i), g) ELSE g
  IN  IF (Hi(c.myMusicCounters[0]) \div 16) % 2 = 0 THEN (b \div 16) % 16 ELSE b % 16

\* counter >> size; a shift by 32 or more is whatever the build makes of it
WaveShift(counter, size, g) ==
  IF size <= 31 THEN Shr32W(counter, size)
  ELSE IF g % 2 = 0 THEN Zero32 ELSE Shr32W(counter, size % 32)

\* myDisplayImage[getWaveform(x) + (myMusicCounters[x] >> myMusicWaveformSize[x])]
WaveByte(c, x, g) ==
  LET i == Add32(getWaveform(c.myBUSRAM, x),
                 WaveShift(c.myMusicCounters[x], c.myMusicWaveformSize[x], g))
  IN  IF Hi(i) = 0 THEN DisplayRead(c.myBUSRAM, Lo(i), g) ELSE g

\* AMPLITUDE with digital audio off: the three voices summed into a byte
WaveformSample(c, g) == (WaveByte(c, 0, g) + WaveByte(c, 1, g) + WaveByte(c, 2, g)) % 256

\* --------------------------------------------------------------------- peek

\* peekvalue = myProgramImage[(myCurrentBank << 12) + address]
PeekValueBank0(c, address, g) == ProgramRead(c.myImage, address, g)
PeekValue(c, address, g) ==
  ProgramRead(c.myImage, c.myCurrentBank * 4096 + address, g)

\* peek, fast jump served: the next byte of stream 17
FastJumpPeekSamePointer(c) ==
  [c |-> [c EXCEPT !.myFastJumpActive = c.myFastJumpActive - 1,
                   !.myJMPoperandAddress = (c.myJMPoperandAddress + 1) % 65536],
   ret |-> RamAt(c.myBUSRAM,
                 DSRAM + Shr32(getDatastreamPointer(c.myBUSRAM, JUMPSTREAM), 20))]
FastJumpPeek(c) ==
  LET pointer == getDatastreamPointer(c.myBUSRAM, JUMPSTREAM)
  IN  [c |-> [c EXCEPT !.myFastJumpActive = c.myFastJumpActive - 1,
                       !.myJMPoperandAddress = (c.myJMPoperandAddress + 1) % 65536,
                       !.myBUSRAM = setDatastreamPointer(c.myBUSRAM, JUMPSTREAM,
                                                         Add32(pointer, W32(16, 0)))],
       ret |-> RamAt(c.myBUSRAM, DSRAM + Shr32(pointer, 20))]

\* peek, JMP $0000 detected: BUS_STUFF_ON && peekvalue == 0x4C && next two == 0
JmpPattern(c, address, g) ==
  /\ BUS_STUFF_ON(c)
  /\ PeekValue(c, address, g) = 76
  /\ ProgramRead(c.myImage, c.myCurrentBank * 4096 + address + 1, g) = 0
  /\ ProgramRead(c.myImage, c.myCurrentBank * 4096 + address + 2, g) = 0

\* peek, the switch on the address: [c, ret: peekvalue]
PeekSwitchNewBank(c, address, peekvalue, now, g) ==
  IF address = 4078 THEN
    [c |-> updateMusicModeDataFetchers(c, now),
     ret |-> IF DIGITAL_AUDIO_ON(c)
             THEN DigitalSample(updateMusicModeDataFetchers(c, now), g)
             ELSE WaveformSample(updateMusicModeDataFetchers(c, now), g)]
  ELSE IF address = 4079 THEN
    [c |-> [c EXCEPT !.myBUSRAM = readFromDatastream(c.myBUSRAM, COMMSTREAM).ram],
     ret |-> readFromDatastream(c.myBUSRAM, COMMSTREAM).value]
  ELSE IF address >= 4085 /\ address <= 4091 THEN
    [c |-> bank(c, address - 4085).c,
     ret |-> PeekValue(bank(c, address - 4085).c, address, g)]
  ELSE [c |-> c, ret |-> peekvalue]
PeekSwitch(c, address, peekvalue, now, g) ==
  IF address = 4078 THEN          \* $FEE AMPLITUDE
    LET c1 == updateMusicModeDataFetchers(c, now)
    IN  [c |-> c1,
         ret |-> IF DIGITAL_AUDIO_ON(c1) THEN DigitalSample(c1, g)
                 ELSE WaveformSample(c1, g)]
  ELSE IF address = 4079 THEN     \* $FEF DSREAD
    LET rd == readFromDatastream(c.myBUSRAM, COMMSTREAM)
    IN  [c |-> [c EXCEPT !.myBUSRAM = rd.ram], ret |-> rd.value]
  ELSE IF address >= 4085 /\ address <= 4091 THEN   \* $FF5..$FFB
    [c |-> bank(c, address - 4085).c, ret |-> peekvalue]
  ELSE [c |-> c, ret |-> peekvalue]

\* peek, no detector returned early: the pending addresses, the switch, and
\* the STY detector on the value the switch left
PeekNormalArmsAlways(c, address, now, g) ==
  LET peekvalue == PeekValue(c, address, g)
      c1 == [c EXCEPT !.myJMPoperandAddress = 0,
                      !.myBusOverdriveAddress =
                         IF c.mySTYZeroPageAddress = address
                         THEN peekvalue ELSE c.myBusOverdriveAddress,
                      !.mySTYZeroPageAddress = 0]
      sw == PeekSwitch(c1, address, peekvalue, now, g)
  IN  [c |-> [sw.c EXCEPT !.mySTYZeroPageAddress =
                             IF BUS_STUFF_ON(sw.c) /\ sw.ret = 132
                             THEN address + 1 ELSE sw.c.mySTYZeroPageAddress],
       ret |-> sw.ret]
PeekNormalDisarms(c, address, now, g) ==
  LET peekvalue == PeekValue(c, address, g)
      c1 == [c EXCEPT !.myJMPoperandAddress = 0,
                      !.myFastJumpActive = 0,
                      !.myBusOverdriveAddress =
                         IF BUS_STUFF_ON(c) /\ c.mySTYZeroPageAddress = address
                         THEN peekvalue ELSE c.myBusOverdriveAddress,
                      !.mySTYZeroPageAddress = 0]
      sw == PeekSwitch(c1, address, peekvalue, now, g)
  IN  [c |-> [sw.c EXCEPT !.mySTYZeroPageAddress =
                             IF BUS_STUFF_ON(sw.c) /\ sw.ret = 132
                             THEN address + 1 ELSE sw.c.mySTYZeroPageAddress],
       ret |-> sw.ret]
PeekNormal(c, address, now, g) ==
  LET peekvalue == PeekValue(c, address, g)
      c1 == [c EXCEPT !.myJMPoperandAddress = 0,
                      !.myBusOverdriveAddress =
                         IF BUS_STUFF_ON(c) /\ c.mySTYZeroPageAddress = address
                         THEN peekvalue ELSE c.myBusOverdriveAddress,
                      !.mySTYZeroPageAddress = 0]
      sw == PeekSwitch(c1, address, peekvalue, now, g)
  IN  [c |-> [sw.c EXCEPT !.mySTYZeroPageAddress =
                             IF BUS_STUFF_ON(sw.c) /\ sw.ret = 132
                             THEN address + 1 ELSE sw.c.mySTYZeroPageAddress],
       ret |-> sw.ret]

\* peek with the bank unlocked: fast jump, then JMP pattern, then the rest
PeekUnlockedFallThrough(c, address, now, g) ==
  IF c.myFastJumpActive # 0 /\ c.myJMPoperandAddress = address
  THEN [c |-> PeekNormal(FastJumpPeek(c).c, address, now, g).c,
        ret |-> FastJumpPeek(c).ret]
  ELSE PeekNormal(c, address, now, g)
PeekUnlocked(c, address, now, g) ==
  IF c.myFastJumpActive # 0 /\ c.myJMPoperandAddress = address
  THEN FastJumpPeek(c)
  ELSE IF JmpPattern(c, address, g)
  THEN [c |-> [c EXCEPT !.myFastJumpActive = 2,
                        !.myJMPoperandAddress = address + 1],
        ret |-> PeekValue(c, address, g)]
  ELSE PeekNormal(c, address, now, g)

\* peek(address) inside the window (address & 0x1000), address &= 0x0FFF done
PeekWindowNoLock(c, address, now, g) == PeekUnlocked(c, address, now, g)
PeekWindow(c, address, now, g) ==
  IF c.myBankLocked THEN [c |-> c, ret |-> PeekValue(c, address, g)]
  ELSE PeekUnlocked(c, address, now, g)

\* peek(address) takes the JMP-pattern branch: inside the window, unlocked,
\* not served by the fast jump, JMP $0000 detected
JmpDetected(c, address, g) ==
  /\ (address \div 4096) % 2 = 1
  /\ ~c.myBankLocked
  /\ ~(c.myFastJumpActive # 0 /\ c.myJMPoperandAddress = address % 4096)
  /\ JmpPattern(c, address % 4096, g)

\* The indexes into myImage that peek at a window offset uses, as uInt32:
\* the byte of the active bank; with the bank unlocked, no fast jump served
\* and bus stuffing on, the look-ahead of the JMP test (the second byte only
\* after $4C, the third only after a $00 inside the image); and at AMPLITUDE
\* with digital audio on, getSample() + (myMusicCounters[0] >> 21)
PeekImageIndexes(c, address, now) ==
  LET i == 4096 + c.myCurrentBank * 4096 + address
      early == c.myBankLocked
                 \/ (c.myFastJumpActive # 0 /\ c.myJMPoperandAddress = address)
      test1 == ~early /\ BUS_STUFF_ON(c) /\ PeekValue(c, address, 0) = 76
      test2 == test1 /\ i + 1 < ImageSize /\ ImageAt(c.myImage, i + 1) = 0
      jump == test2 /\ i + 2 < ImageSize /\ ImageAt(c.myImage, i + 2) = 0
      c1 == updateMusicModeDataFetchers(c, now)
  IN  {W32(0, i)}
        \cup (IF test1 THEN {W32(0, i + 1)} ELSE {})
        \cup (IF test2 THEN {W32(0, i + 2)} ELSE {})
        \cup (IF ~early /\ ~jump /\ address = 4078 /\ DIGITAL_AUDIO_ON(c1)
              THEN {Add32(getSample(c1.myBUSRAM),
                          W32(0, Shr32(c1.myMusicCounters[0], 21)))}
              ELSE {})

\* peek(address): below the window the TIA or the RIOT answers (g), or nobody
peek(c, address, now, g) ==
  IF (address \div 4096) % 2 = 0
  THEN [c |-> c,
        ret |-> IF (address \div 128) % 2 = 1 \/ (address \div 512) % 2 = 0
                THEN g ELSE 0]
  ELSE PeekWindow(c, address % 4096, now, g)

\* --------------------------------------------------------------------- poke

\* callFunction(value): 254 and 255 run the Thumbulator for the cycles since
\* the last call; [c, thumb: whether the interpreter ran]
callFunction(c, value, now) ==
  IF value = 254 \/ value = 255
  THEN [c |-> [c EXCEPT !.myARMCycles = now], thumb |-> TRUE]
  ELSE [c |-> c, thumb |-> FALSE]

\* callFunction(value), the catch around myThumbEmulator->run(cycles): a
\* runtime_error is caught, and reported unless the system is autodetecting;
\* [diag: a diagnostic is reported, escaped: the exception leaves poke]
ThumbCatchAlwaysReports(ran, fault, autodetect) ==
  [diag |-> ran /\ fault = "runtime_error", escaped |-> FALSE]
ThumbCatch(ran, fault, autodetect) ==
  [diag    |-> ran /\ fault = "runtime_error" /\ ~autodetect,
   escaped |-> ran /\ fault \notin {"none", "runtime_error"}]

\* pointer <<= 8; pointer &= 0xf0000000; pointer |= (value << 20)
LoadPointerOverwrite(pointer, value) == W32(value * 16, 0)
LoadPointer(pointer, value) == W32(((Hi(pointer) \div 16) % 16) * 4096 + value * 16, 0)

\* poke(address, value) inside the window: [c, thumb]
PokeWindowStreamStep(c, address, value, now) ==
  IF address = 4080
  THEN [c |-> [c EXCEPT !.myBUSRAM =
                 readFromDatastream(
                   RamPut(c.myBUSRAM,
                          DSRAM + Shr32(getDatastreamPointer(c.myBUSRAM, COMMSTREAM), 20),
                          value),
                   COMMSTREAM).ram],
        thumb |-> FALSE]
  ELSE IF address = 4082 THEN [c |-> [c EXCEPT !.myMode = value], thumb |-> FALSE]
  ELSE [c |-> c, thumb |-> FALSE]
PokeWindowFromRamBase(c, address, value, now) ==
  IF address = 4080
  THEN [c |-> [c EXCEPT !.myBUSRAM =
                 setDatastreamPointer(
                   RamPut(c.myBUSRAM,
                          Shr32(getDatastreamPointer(c.myBUSRAM, COMMSTREAM), 20),
                          value),
                   COMMSTREAM,
                   Add32(getDatastreamPointer(c.myBUSRAM, COMMSTREAM), W32(16, 0)))],
        thumb |-> FALSE]
  ELSE IF address = 4082 THEN [c |-> [c EXCEPT !.myMode = value], thumb |-> FALSE]
  ELSE [c |-> c, thumb |-> FALSE]
PokeWindow(c, address, value, now) ==
  LET pointer == getDatastreamPointer(c.myBUSRAM, COMMSTREAM)
      same == [c |-> c, thumb |-> FALSE]
  IN  IF address = 4080 THEN        \* $FF0 DSWRITE
        [same EXCEPT !.c.myBUSRAM =
            setDatastreamPointer(RamPut(c.myBUSRAM, DSRAM + Shr32(pointer, 20), value),
                                 COMMSTREAM, Add32(pointer, W32(16, 0)))]
      ELSE IF address = 4081 THEN   \* $FF1 DSPTR
        [same EXCEPT !.c.myBUSRAM =
            setDatastreamPointer(c.myBUSRAM, COMMSTREAM, LoadPointer(pointer, value))]
      ELSE IF address = 4082 THEN   \* $FF2 SETMODE
        [same EXCEPT !.c.myMode = value]
      ELSE IF address = 4083 THEN   \* $FF3 CALLFN
        callFunction(c, value, now)
      ELSE IF address >= 4085 /\ address <= 4091 THEN   \* $FF5..$FFB
        [same EXCEPT !.c = bank(c, address - 4085).c]
      ELSE same

\* The peripheral a write below the window goes to
Peripheral(address) ==
  IF (address \div 128) % 2 = 1 THEN "m6532"
  ELSE IF (address \div 512) % 2 = 0 THEN "tia" ELSE "none"

\* poke(address, value): [c, ret, bus: the value handed to the peripheral
\* (-1: none), thumb]
pokeReplace(c, address, value, now) ==
  IF (address \div 4096) % 2 = 0
  THEN [c |-> busOverdrive(c, address).c, ret |-> FALSE,
        bus |-> IF Peripheral(address) = "none" THEN -1
                ELSE IF address = c.myBusOverdriveAddress
                THEN busOverdrive(c, address).overdrive ELSE value,
        thumb |-> FALSE]
  ELSE [c |-> PokeWindow(c, address % 4096, value, now).c, ret |-> FALSE,
        bus |-> -1, thumb |-> PokeWindow(c, address % 4096, value, now).thumb]
poke(c, address, value, now) ==
  IF (address \div 4096) % 2 = 0
  THEN LET o == busOverdrive(c, address)
       IN  [c |-> o.c, ret |-> FALSE,
            bus |-> IF Peripheral(address) = "none" THEN -1
                    ELSE BitAnd(value, o.overdrive),
            thumb |-> FALSE]
  ELSE LET w == PokeWindow(c, address % 4096, value, now)
       IN  [c |-> w.c, ret |-> FALSE, bus |-> -1, thumb |-> w.thumb]

\* -------------------------------------------------------------- save, load

\* name(), the type tag
CartName == "CartridgeBUS"

\* (n * 10^8) mod 143183, with 10^8 = 698 * 143183 + 58266 and
\* 58266 = 233 * 250 + 16, every product within 32 bits
Scaled(n) == ((((n * 233) % 143183) * 250) + n * 16) % 143183

\* (uInt32)(myFractionalClocks * 100000000.0), and the double that
\* (double)getInt() / 100000000.0 makes of it: the integer k is carried as the
\* fraction k / 10^8 in the <<n, e>> form. The digits after the eighth are
\* cut: e grows by (n * 10^8 - e) mod 143183.
ScaledFraction(f) ==
  IF f[1] <= 0 THEN <<0, 0>>
  ELSE <<f[1], f[2] + ((Scaled(f[1]) - f[2]) % 143183)>>

\* save(out): the fields in the order they are put
save(c) ==
  << CartName,
     c.myCurrentBank % 65536,               \* putShort
     c.myBUSRAM,                            \* putByteArray(myBUSRAM, 8192)
     c.myBusOverdriveAddress % 65536,       \* putShort
     c.mySTYZeroPageAddress % 65536,        \* putShort
     c.myJMPoperandAddress % 65536,         \* putShort
     c.mySystemCycles,                      \* putInt
     ScaledFraction(c.myFractionalClocks),  \* putInt
     c.myARMCycles,                         \* putInt
     c.myMusicCounters,                     \* putIntArray(.., 3)
     c.myMusicFrequencies,                  \* putIntArray(.., 3)
     c.myMusicWaveformSize,                 \* putByteArray(.., 3)
     c.myMode % 256,                        \* putByte
     c.myFastJumpActive % 256 >>            \* putByte

\* The number of fields of a complete stream
StreamFields == 14

\* load(in), one field: the member it is read into
LoadField(c, i, v) ==
  IF i = 2 THEN [c EXCEPT !.myCurrentBank = v]
  ELSE IF i = 3 THEN [c EXCEPT !.myBUSRAM = v]
  ELSE IF i = 4 THEN [c EXCEPT !.myBusOverdriveAddress = v]
  ELSE IF i = 5 THEN [c EXCEPT !.mySTYZeroPageAddress = v]
  ELSE IF i = 6 THEN [c EXCEPT !.myJMPoperandAddress = v]
  ELSE IF i = 7 THEN [c EXCEPT !.mySystemCycles = v]
  ELSE IF i = 8 THEN [c EXCEPT !.myFractionalClocks = v]
  ELSE IF i = 9 THEN [c EXCEPT !.myARMCycles = v]
  ELSE IF i = 10 THEN [c EXCEPT !.myMusicCounters = v]
  ELSE IF i = 11 THEN [c EXCEPT !.myMusicFrequencies = v]
  ELSE IF i = 12 THEN [c EXCEPT !.myMusicWaveformSize = v]
  ELSE IF i = 13 THEN [c EXCEPT !.myMode = v]
  ELSE [c EXCEPT !.myFastJumpActive = v]

\* load(in), the reads from field i on, each straight into its member, up to
\* the end of the stream
RECURSIVE ReadFields(_, _, _)
ReadFields(c, in, i) ==
  IF i > Len(in) \/ i > StreamFields THEN c
  ELSE ReadFields(LoadField(c, i, in[i]), in, i + 1)

\* load(in): a read past the end of the stream throws, and the catch
\* returns false; [c, ret]
loadAnyTag(c, in) ==
  IF Len(in) < StreamFields THEN [c |-> ReadFields(c, in, 2), ret |-> FALSE]
  ELSE [c |-> bank(ReadFields(c, in, 2), ReadFields(c, in, 2).myCurrentBank).c,
        ret |-> TRUE]
loadRegisterOnly(c, in) ==
  IF Len(in) = 0 \/ in[1] # CartName THEN [c |-> c, ret |-> FALSE]
  ELSE [c |-> ReadFields(c, in, 2), ret |-> Len(in) >= StreamFields]
load(c, in) ==
  IF Len(in) = 0 \/ in[1] # CartName THEN [c |-> c, ret |-> FALSE]
  ELSE LET c1 == ReadFields(c, in, 2)
       IN  IF Len(in) < StreamFields THEN [c |-> c1, ret |-> FALSE]
           ELSE [c |-> bank(c1, c1.myCurrentBank).c, ret |-> TRUE]

\* -------------------------------------------------------------------- reset

\* reset(): the RAM above the driver is zeroed, or filled at random (random:
\* the cells that are not zero) with the "ramrandom" setting; the cycle
\* records are set to the system's cycles; setInitialState() copies the
\* driver, sets the waveform sizes, the start bank and the mode; then
\* bank(myStartBank). What is not assigned here keeps its value.
reset(c, now, random) ==
  bank([c EXCEPT !.myBUSRAM = random,
                 !.mySystemCycles = now,
                 !.myARMCycles = now,
                 !.myFractionalClocks = <<0, 0>>,
                 !.myMusicWaveformSize = [x \in 0..2 |-> 27],
                 !.myMode = 255],
       6).c

\* ------------------------------------------------------------------ actions

EmptyMem == [x \in {} |-> 0]

\* What the constructor and reset() do not set holds whatever the memory
\* held - the fast-jump and override fields, the voices - and with the
\* "ramrandom" setting reset() fills the RAM above the driver at random.
\* Either everything is zero, or it is left over from an earlier object.
Unset ==
  { [fj |-> 0, jmp |-> 0, sty |-> 0, od |-> 0, ram |-> EmptyMem,
     cnt |-> [x \in 0..2 |-> Zero32], freq |-> [x \in 0..2 |-> Zero32]],
    [fj |-> 1, jmp |-> 16, sty |-> 513, od |-> 48,
     ram |-> (DSRAM + 2 :> 165) @@ (DSRAM + 4 :> 90),
     cnt |-> [x \in 0..2 |-> W32(32, 0)], freq |-> [x \in 0..2 |-> W32(16, 0)]] }

\* An out-of-array byte, or the byte a peripheral answers with
OtherBytes == {0, 255}

SetCart(c) ==
  /\ myImage' = c.myImage
  /\ myBUSRAM' = c.myBUSRAM
  /\ myCurrentBank' = c.myCurrentBank
  /\ myBankLocked' = c.myBankLocked
  /\ myBankChanged' = c.myBankChanged
  /\ pageAccess' = c.pageAccess
  /\ myBusOverdriveAddress' = c.myBusOverdriveAddress
  /\ mySTYZeroPageAddress' = c.mySTYZeroPageAddress
  /\ myJMPoperandAddress' = c.myJMPoperandAddress
  /\ myFastJumpActive' = c.myFastJumpActive
  /\ myMode' = c.myMode
  /\ mySystemCycles' = c.mySystemCycles
  /\ myARMCycles' = c.myARMCycles
  /\ myFractionalClocks' = c.myFractionalClocks
  /\ myMusicCounters' = c.myMusicCounters
  /\ myMusicFrequencies' = c.myMusicFrequencies
  /\ myMusicWaveformSize' = c.myMusicWaveformSize

\* A call as recorded in last: ret is the result, bus the value handed to
\* the peripheral (-1: none), thumb whether the interpreter ran, od the
\* pending override address the call found; for a poke, fault is what the
\* interpreter run threw, autodetect the system's autodetection mode, diag
\* whether a diagnostic was reported, escaped whether an exception left poke.
\* Two things are kept from earlier calls where the peeks are traced: armed,
\* the window offset of the most recent peek that detected JMP $0000 (-1:
\* none yet), and peeked, the most recent peek of the window - its offset,
\* the byte it returned, and whether bus stuffing was on.
NoPeek == [offset |-> -1, ret |-> -1, stuffing |-> FALSE]

Call(op, address, value, ret, bus, thumb, od) ==
  [op |-> op, address |-> address, value |-> value, ret |-> ret, bus |-> bus,
   thumb |-> thumb, od |-> od, fault |-> "none", autodetect |-> FALSE,
   diag |-> FALSE, escaped |-> FALSE,
   armed |-> last.armed, peeked |-> last.peeked]

\* What last holds before the first call
FirstCall(value) ==
  [op |-> "init", address |-> 0, value |-> value, ret |-> 0, bus |-> -1,
   thumb |-> FALSE, od |-> 0, fault |-> "none", autodetect |-> FALSE,
   diag |-> FALSE, escaped |-> FALSE, armed |-> -1, peeked |-> NoPeek]

\* The state after the constructor, install() and reset() at cycle 0
Start ==
  \E u \in Unset :
    /\ myImage = EmptyMem
    /\ myBUSRAM = u.ram
    /\ myCurrentBank = 6
    /\ myBankLocked = FALSE
    /\ myBankChanged = TRUE
    /\ pageAccess = 6 * 4096
    /\ myBusOverdriveAddress = u.od
    /\ mySTYZeroPageAddress = u.sty
    /\ myJMPoperandAddress = u.jmp
    /\ myFastJumpActive = u.fj
    /\ myMode = 255
    /\ mySystemCycles = 0
    /\ myARMCycles = 0
    /\ myFractionalClocks = <<0, 0>>
    /\ myMusicCounters = u.cnt
    /\ myMusicFrequencies = u.freq
    /\ myMusicWaveformSize = [x \in 0..2 |-> 27]
    /\ cycles = 0
    /\ stream = <<>>
    /\ last = FirstCall(0)
    /\ Constructed

Step ==
  /\ budget > 0
  /\ budget' = budget - 1
  /\ UNCHANGED <<cycles, stream, debugger>>

Peek(address, g) ==
  LET o == peek(Cart, address, cycles, g)
  IN  /\ Step
      /\ SetCart(o.c)
      /\ last' = Call("peek", address, 0, o.ret, -1, FALSE, 0)

\* peek(address), with the history of the peeks kept in last: armed and
\* peeked
TracedPeek(address, g) ==
  LET o == peek(Cart, address, cycles, g)
  IN  /\ Step
      /\ SetCart(o.c)
      /\ last' = [Call("peek", address, 0, o.ret, -1, FALSE, 0)
                    EXCEPT !.armed = IF JmpDetected(Cart, address, g)
                                     THEN address % 4096 ELSE last.armed,
                           !.peeked = IF (address \div 4096) % 2 = 1
                                      THEN [offset |-> address % 4096,
                                            ret |-> o.ret,
                                            stuffing |-> BUS_STUFF_ON(o.c)]
                                      ELSE last.peeked]

Poke(address, value, fault, autodetect) ==
  LET o == poke(Cart, address, value, cycles)
      t == ThumbCatch(o.thumb, fault, autodetect)
  IN  /\ Step
      /\ SetCart(o.c)
      /\ last' = [Call("poke", address, value, o.ret, o.bus, o.thumb,
                       IF address < 4096 THEN myBusOverdriveAddress ELSE 0)
                    EXCEPT !.fault = fault, !.autodetect = autodetect,
                           !.diag = t.diag, !.escaped = t.escaped]

Bank(n) ==
  LET o == bank(Cart, n)
  IN  /\ Step
      /\ SetCart(o.c)
      /\ last' = Call("bank", n, 0, o.ret, -1, FALSE, 0)

Patch(address, value) ==
  LET o == patch(Cart, address, value)
  IN  /\ Step
      /\ SetCart(o.c)
      /\ last' = Call("patch", address, value, o.ret, -1, FALSE, 0)

\* Cartridge::lockBank()
LockBank ==
  /\ Step
  /\ SetCart([Cart EXCEPT !.myBankLocked = TRUE])
  /\ last' = Call("lockBank", 0, 0, 0, -1, FALSE, 0)

\* Cartridge::unlockBank()
UnlockBank ==
  /\ Step
  /\ SetCart([Cart EXCEPT !.myBankLocked = FALSE])
  /\ last' = Call("unlockBank", 0, 0, 0, -1, FALSE, 0)

\* Cartridge::bankChanged(): the code-cache invalidator reads and clears the flag
BankChanged ==
  /\ Step
  /\ SetCart([Cart EXCEPT !.myBankChanged = FALSE])
  /\ last' = Call("bankChanged", 0, 0, myBankChanged, -1, FALSE, 0)

\* The processor runs for 60 cycles between two calls
Tick ==
  /\ budget > 0
  /\ budget' = budget - 1
  /\ cycles' = cycles + 60
  /\ UNCHANGED <<stream, debugger>>
  /\ SetCart(Cart)
  /\ last' = Call("tick", 0, 0, 0, -1, FALSE, 0)

\* readFromDatastream(index), called on its own
ReadStream(index) ==
  LET o == readFromDatastream(myBUSRAM, index)
  IN  /\ Step
      /\ SetCart([Cart EXCEPT !.myBUSRAM = o.ram])
      /\ last' = Call("read", index, 0, o.value, -1, FALSE, 0)

\* ---------------------------------------------------------- specifications

\* Reads: TIA mirror; window offsets $000, $010 (JMP $0000 below $40),
\* $100.. (JMP $0000), $200.. (STY $10 / STY $30), AMPLITUDE, DSREAD,
\* bank-select $FF5, $FF6, $FF7
PeekAddrs == {128, 4096, 4112, 4352, 4353, 4354, 4608, 4609,
              8174, 8175, 8181, 8182, 8183}
\* Writes: DSWRITE, DSPTR, SETMODE, CALLFN, bank-select $FFA; TIA $10, $11,
\* $30 and RIOT $FF
PokeArgs == {<<8176, 132>>, <<8177, 5>>, <<8178, 0>>,
             <<8179, 255>>, <<8179, 1>>, <<8186, 0>>,
             <<16, 255>>, <<16, 15>>, <<17, 255>>, <<48, 255>>, <<255, 15>>}
BankArgs == 0..6
\* What the interpreter run of a CALLFN write throws, and whether the system
\* is autodetecting meanwhile; nothing of it matters to another write
ThumbRuns(address) ==
  IF address % 4096 = 4083
  THEN {<<"none", FALSE>>, <<"runtime_error", FALSE>>, <<"runtime_error", TRUE>>}
  ELSE {<<"none", FALSE>>}
PatchArgs == {<<4352, 234>>, <<4112, 234>>}

Next ==
  \/ \E a \in PeekAddrs, g \in OtherBytes : Peek(a, g)
  \/ \E p \in PokeArgs : \E r \in ThumbRuns(p[1]) : Poke(p[1], p[2], r[1], r[2])
  \/ \E n \in BankArgs : Bank(n)
  \/ \E p \in PatchArgs : Patch(p[1], p[2])
  \/ LockBank
  \/ UnlockBank
  \/ BankChanged
  \/ Tick

Init == Start /\ budget = MaxSteps

Spec == Init /\ [][Next]_vars

\* readFromDatastream on its own: a stream of the table with a pointer and an
\* increment as the driver or the ARM code may have left them, display RAM
\* holding index mod 255, plus 1, at the first cells the reads touch.
StreamIndexes == {0, COMMSTREAM, 23}
StreamPointers == {W32(0, 0), W32(32, 4660), W32(65520, 0), W32(65535, 65535),
                   W32(4095, 61440)}
StreamIncrements == {W32(0, 0), W32(0, 256), W32(0, 65535), W32(1, 256),
                     W32(65535, 65535), W32(4660, 22136)}

StreamDisplay(p) ==
  LET i == Shr32(p, 20)
  IN  [a \in {DSRAM + i, DSRAM + ((i + 1) % 4096)} |-> ((a - DSRAM) % 255) + 1]

InitStream ==
  \E u \in {x \in Unset : x.fj = 0}, i \in StreamIndexes,
     p \in StreamPointers, inc \in StreamIncrements :
    /\ myImage = EmptyMem
    /\ myBUSRAM = setDatastreamIncrement(
                    setDatastreamPointer(StreamDisplay(p), i, p), i, inc)
    /\ myCurrentBank = 6
    /\ myBankLocked = FALSE
    /\ myBankChanged = TRUE
    /\ pageAccess = 6 * 4096
    /\ myBusOverdriveAddress = u.od
    /\ mySTYZeroPageAddress = u.sty
    /\ myJMPoperandAddress = u.jmp
    /\ myFastJumpActive = u.fj
    /\ myMode = 255
    /\ mySystemCycles = 0
    /\ myARMCycles = 0
    /\ myFractionalClocks = <<0, 0>>
    /\ myMusicCounters = u.cnt
    /\ myMusicFrequencies = u.freq
    /\ myMusicWaveformSize = [x \in 0..2 |-> 27]
    /\ cycles = 0
    /\ stream = <<>>
    /\ budget = MaxSteps
    /\ last = FirstCall(0)
    /\ Constructed

NextStream ==
  \/ \E i \in StreamIndexes : ReadStream(i)
  \/ Poke(8176, 132, "none", FALSE)
  \/ Peek(8175, 0)

SpecStream == InitStream /\ [][NextStream]_vars

\* save(out) into the Serializer
Save ==
  /\ budget > 0
  /\ budget' = budget - 1
  /\ stream' = save(Cart)
  /\ UNCHANGED <<cycles, debugger>>
  /\ SetCart(Cart)
  /\ last' = Call("save", 0, 0, TRUE, -1, FALSE, 0)

\* The stream handed to load(): what save() wrote, cut after its first
\* fields, or with another cartridge's tag
Retagged(in) == [in EXCEPT ![1] = "CartridgeDPCPlus"]
Truncated(in, fields) == SubSeq(in, 1, fields)

\* load(in) of a saved stream: address is the number of fields the stream
\* has, value whether the tag is the cartridge's, od the page mapping the
\* call found
Load(in) ==
  LET o == load(Cart, in)
  IN  /\ Step
      /\ SetCart(o.c)
      /\ last' = Call("load", Len(in), IF in[1] = CartName THEN 1 ELSE 0,
                      o.ret, -1, FALSE, pageAccess)

LoadSaved == stream # <<>> /\ Load(stream)
LoadRetagged == stream # <<>> /\ Load(Retagged(stream))
LoadTruncated(fields) == stream # <<>> /\ Load(Truncated(stream, fields))

\* States saved and loaded: the clock runs, the voices are read, the bank and
\* the mode change, the debugger locks; a state is saved, and later loaded
\* whole, cut short or under a wrong tag.
NextState ==
  \/ Save
  \/ LoadSaved
  \/ LoadRetagged
  \/ \E k \in 1..(StreamFields - 1) : LoadTruncated(k)
  \/ Tick
  \/ \E a \in {8174} : Peek(a, 0)
  \/ \E p \in {<<8178, 0>>} : Poke(p[1], p[2], "none", FALSE)
  \/ \E n \in {0} : Bank(n)
  \/ LockBank

SpecState == Init /\ [][NextState]_vars

\* getWaveform(index) on its own, for a voice whose table entry holds any
\* 32-bit value: value is the entry, ret the base
GetWaveform(index) ==
  /\ Step
  /\ SetCart(Cart)
  /\ last' = Call("getWaveform", index, GetWord(myBUSRAM, WAVEFORM, index),
                  getWaveform(myBUSRAM, index), -1, FALSE, 0)

\* $40000800 (first byte), $40000820, $400017FF (last byte), $40001800 (one
\* past), $400007FF (one below the origin), 0, $FFFFFFFF, $40010800
WaveformWords == {W32(16384, 2048), W32(16384, 2080), W32(16384, 6143),
                  W32(16384, 6144), W32(16384, 2047), W32(0, 0),
                  W32(65535, 65535), W32(16385, 2048)}

InitWave ==
  \E u \in {x \in Unset : x.fj = 0},
     w0 \in WaveformWords, w1 \in WaveformWords, w2 \in WaveformWords :
    /\ myImage = EmptyMem
    /\ myBUSRAM = PutWord(PutWord(PutWord(u.ram, WAVEFORM, 0, w0),
                                  WAVEFORM, 1, w1), WAVEFORM, 2, w2)
    /\ myCurrentBank = 6
    /\ myBankLocked = FALSE
    /\ myBankChanged = TRUE
    /\ pageAccess = 6 * 4096
    /\ myBusOverdriveAddress = u.od
    /\ mySTYZeroPageAddress = u.sty
    /\ myJMPoperandAddress = u.jmp
    /\ myFastJumpActive = u.fj
    /\ myMode = 255
    /\ mySystemCycles = 0
    /\ myARMCycles = 0
    /\ myFractionalClocks = <<0, 0>>
    /\ myMusicCounters = u.cnt
    /\ myMusicFrequencies = u.freq
    /\ myMusicWaveformSize = [x \in 0..2 |-> 27]
    /\ cycles = 0
    /\ stream = <<>>
    /\ budget = MaxSteps
    /\ last = FirstCall(0)
    /\ Constructed

NextWave == \E x \in 0..2 : GetWaveform(x)

SpecWave == InitWave /\ [][NextWave]_vars

\* updateMusicModeDataFetchers() on its own, d cycles after the last one.
\* last.value carries the voices as they were at the start (fractional
\* clocks, counters, cycle record), last.ret the whole clocks applied so far.
Update(d) ==
  LET c1 == updateMusicModeDataFetchers(Cart, cycles + d)
      wholeClocks == (2400 * d + myFractionalClocks[1] - c1.myFractionalClocks[1])
                       \div 143183
  IN  /\ budget > 0
      /\ budget' = budget - 1
      /\ cycles' = cycles + d
      /\ UNCHANGED <<stream, debugger>>
      /\ SetCart(c1)
      /\ last' = Call("update", d, last.value, last.ret + wholeClocks,
                      -1, FALSE, 0)

\* Fractions of a clock left by earlier updates (0, 817/143183, just below
\* one clock) or loaded from a saved state; frequencies; cycle deltas from 0
\* to two clocks' worth
MusicFractions == {<<0, 0>>, <<817, 0>>, <<143182, 0>>, <<817, 66566>>}
MusicFrequencies == {W32(0, 1), W32(16, 0), W32(65535, 65535)}
MusicDeltas == {0, 1, 59, 60, 119}

InitMusic ==
  \E u \in {x \in Unset : x.fj = 0}, f \in MusicFractions,
     q \in MusicFrequencies :
    /\ myImage = EmptyMem
    /\ myBUSRAM = u.ram
    /\ myCurrentBank = 6
    /\ myBankLocked = FALSE
    /\ myBankChanged = TRUE
    /\ pageAccess = 6 * 4096
    /\ myBusOverdriveAddress = u.od
    /\ mySTYZeroPageAddress = u.sty
    /\ myJMPoperandAddress = u.jmp
    /\ myFastJumpActive = u.fj
    /\ myMode = 255
    /\ mySystemCycles = 0
    /\ myARMCycles = 0
    /\ myFractionalClocks = f
    /\ myMusicCounters = [x \in 0..2 |-> W32(65535, 65535 - x)]
    /\ myMusicFrequencies = [x \in 0..2 |-> q]
    /\ myMusicWaveformSize = [x \in 0..2 |-> 27]
    /\ cycles = 0
    /\ stream = <<>>
    /\ budget = MaxSteps
    /\ last = FirstCall([myFractionalClocks |-> f,
                          myMusicCounters |-> [x \in 0..2 |-> W32(65535, 65535 - x)],
                          mySystemCycles |-> 0])
    /\ Constructed

NextMusic == \E d \in MusicDeltas : Update(d)

SpecMusic == InitMusic /\ [][NextMusic]_vars

\* reset(); address is 1 with the "ramrandom" setting on
Reset(ramrandom) ==
  /\ Step
  /\ SetCart(reset(Cart, cycles,
                   IF ramrandom THEN (DSRAM + 2 :> 165) @@ (DSRAM + 4 :> 90)
                   ELSE EmptyMem))
  /\ last' = Call("reset", IF ramrandom THEN 1 ELSE 0, 0, 0, -1, FALSE, 0)

\* A cartridge used for a while - mode set, fast jump armed, RAM written,
\* bank switched, the clock run - and then reset
NextReset ==
  \/ \E r \in BOOLEAN : Reset(r)
  \/ Tick
  \/ \E a \in {4352, 4608, 8174} : Peek(a, 0)
  \/ \E p \in {<<8178, 0>>, <<8176, 132>>} :
       Poke(p[1], p[2], "none", FALSE)
  \/ \E n \in {0} : Bank(n)
  \/ LockBank

SpecReset == Init /\ [][NextReset]_vars

\* bank(n) for bank numbers inside and outside 0..6 (7, $FFFF), among the
\* other calls that set or use the active bank
NextRange ==
  \/ \E n \in {0, 6, 7, 65535} : Bank(n)
  \/ \E a \in {4352, 8181}, g \in OtherBytes : Peek(a, g)
  \/ \E p \in {<<8186, 0>>} : Poke(p[1], p[2], "none", FALSE)
  \/ \E p \in {<<4352, 234>>} : Patch(p[1], p[2])
  \/ Reset(FALSE)
  \/ Save
  \/ LoadSaved

SpecRange == Init /\ [][NextRange]_vars

\* The command-stream registers: the pointer loaded byte by byte through
\* DSPTR, a byte written through DSWRITE and read back through DSREAD, the
\* mode set, and the STY at $200 of bank 6 read
InitCommand == Start /\ budget = MaxCommands

NextCommand ==
  \/ \E p \in {<<8176, 132>>, <<8177, 0>>, <<8177, 5>>, <<8177, 171>>,
              <<8178, 0>>} :
       Poke(p[1], p[2], "none", FALSE)
  \/ \E a \in {8175, 4608} : Peek(a, 0)

SpecCommand == InitCommand /\ [][NextCommand]_vars

\* The detectors of peek with the history of the peeks kept: offsets $000,
\* $001, $100.. (JMP $0000), $200.. (STY $10), the mode set, the TIA
\* register $EA written, the debugger's lock
NextDetect ==
  \/ \E a \in {4096, 4097, 4352, 4353, 4354, 4608, 4609} : TracedPeek(a, 0)
  \/ \E p \in {<<8178, 0>>, <<234, 15>>} : Poke(p[1], p[2], "none", FALSE)
  \/ LockBank
  \/ UnlockBank

SpecDetect == Init /\ [][NextDetect]_vars

\* The reads of the image at its end: the last two offsets of bank 6, the
\* sample read of AMPLITUDE, with the mode set and the banks switched
NextBounds ==
  \/ \E a \in {8190, 8191, 8174}, g \in OtherBytes : Peek(a, g)
  \/ \E v \in {0, 240} : Poke(8178, v, "none", FALSE)
  \/ \E n \in {0, 6} : Bank(n)
  \/ Tick

SpecBounds == Init /\ [][NextBounds]_vars

\* The table accessors on their own: a store into one of the three tables
\* followed by the load of the same entry (ret).
SetPointer(index, value) ==
  LET ram == setDatastreamPointer(myBUSRAM, index, value)
  IN  /\ Step
      /\ SetCart([Cart EXCEPT !.myBUSRAM = ram])
      /\ last' = Call("setDatastreamPointer", index, value,
                      getDatastreamPointer(ram, index), DSxPTR, FALSE, 0)

SetIncrement(index, value) ==
  LET ram == setDatastreamIncrement(myBUSRAM, index, value)
  IN  /\ Step
      /\ SetCart([Cart EXCEPT !.myBUSRAM = ram])
      /\ last' = Call("setDatastreamIncrement", index, value,
                      getDatastreamIncrement(ram, index), DSxINC, FALSE, 0)

SetMap(index, value) ==
  LET ram == setAddressMap(myBUSRAM, index, value)
  IN  /\ Step
      /\ SetCart([Cart EXCEPT !.myBUSRAM = ram])
      /\ last' = Call("setAddressMap", index, value,
                      getAddressMap(ram, index), DSMAPS, FALSE, 0)

TableIndexes == {0, 15, JUMPSTREAM, 18, 255}
TableWords == {W32(0, 0), W32(4660, 22136), W32(32768, 1), W32(65535, 65535)}

InitTable == Start /\ budget = MaxStores

NextTable ==
  \/ \E i \in TableIndexes, w \in TableWords : SetPointer(i, w)
  \/ \E i \in TableIndexes, w \in TableWords : SetIncrement(i, w)
  \/ \E i \in TableIndexes, w \in TableWords : SetMap(i, w)

SpecTable == InitTable /\ [][NextTable]_vars

\* ------------------------------------------------------------------- claims

Window(address) == (address \div 4096) % 2 = 1
Offset(address) == address % 4096

\* The ROM byte of the active bank at a window offset (banks 0..6)
BankByte(offset) == ImageAt(myImage, BankBase(myCurrentBank) + offset)

\* Everything a peek may touch besides the detectors and RAM
QuietRegisters ==
  <<myImage, myCurrentBank, myBankLocked, myBankChanged, pageAccess, myMode,
    mySystemCycles, myARMCycles, myFractionalClocks, myMusicCounters,
    myMusicFrequencies, myMusicWaveformSize>>

\* C1: bank(n), n in 0..6, with the bank unlocked returns true, makes
\* getBank() = n and maps the pages of bank n, and a second bank(n) would
\* leave that state as it is; with the bank locked it returns false and
\* leaves getBank() and the page mapping unchanged.
BankSelectsOrRejects ==
  [][last'.op = "bank" =>
       IF myBankLocked
       THEN /\ last'.ret = FALSE
            /\ myCurrentBank' = myCurrentBank
            /\ pageAccess' = pageAccess
       ELSE /\ last'.ret = TRUE
            /\ myCurrentBank' = last'.address
            /\ pageAccess' = 4096 * last'.address
            /\ bank(Cart', last'.address).c = Cart']_vars

BankSelected ==
  /\ last.op = "bank" /\ last.ret = TRUE /\ last.address = 3
  /\ myCurrentBank = 3 /\ pageAccess = 12288

\* C2: with the bank locked, a peek inside the window returns the ROM byte
\* at (bank << 12) + (address & 0x0FFF) and changes no cartridge state.
LockedPeekIsRomRead ==
  [][(last'.op = "peek" /\ Window(last'.address) /\ myBankLocked) =>
       /\ last'.ret = BankByte(Offset(last'.address))
       /\ Cart' = Cart]_vars

\* AMPLITUDE read under the lock after the clock has advanced
LockedAmplitudePeek ==
  /\ last.op = "peek" /\ last.address = 8174 /\ myBankLocked
  /\ cycles # mySystemCycles

\* C3: with the bank locked, a poke inside the window changes no cartridge
\* state and does not run the coprocessor.
LockedPokeChangesNothing ==
  [][(last'.op = "poke" /\ Window(last'.address) /\ myBankLocked) =>
       (Cart' = Cart /\ ~last'.thumb)]_vars

\* C4 as claimed: with the bank locked, patch fails for every address and
\* leaves the image and the bank-changed flag unchanged.
LockedPatchFails ==
  [][(last'.op = "patch" /\ myBankLocked) =>
       /\ last'.ret = FALSE
       /\ myImage' = myImage
       /\ myBankChanged' = myBankChanged]_vars

\* C4 amended: the lock does not affect patch. With the bank locked, patch
\* fails and changes nothing only for (addr & 0x0FFF) < 0x40; for any other
\* addr it stores the value in the image at the active bank's offset, sets
\* the bank-changed flag and returns true.
LockedPatchStillPatches ==
  [][(last'.op = "patch" /\ myBankLocked) =>
       IF Offset(last'.address) >= 64
       THEN /\ last'.ret = TRUE
            /\ Cart' = [Cart EXCEPT
                 !.myImage = ImagePut(myImage,
                               BankBase(myCurrentBank) + Offset(last'.address),
                               last'.value),
                 !.myBankChanged = TRUE]
       ELSE /\ last'.ret = FALSE
            /\ Cart' = Cart]_vars

LockedPatchDone ==
  /\ last.op = "patch" /\ last.ret = TRUE /\ myBankLocked
  /\ myCurrentBank = 6 /\ BankByte(256) = 234 /\ RomByte(BankBase(6) + 256) = 76

\* The pointer of the indirect-jump stream, and the display byte it selects
JumpPointer == getDatastreamPointer(myBUSRAM, JUMPSTREAM)
JumpByte == RamAt(myBUSRAM, DSRAM + Shr32(JumpPointer, 20))

\* A peek of the window with the bank unlocked that the fast jump serves
FastJumpServes ==
  /\ last'.op = "peek" /\ Window(last'.address) /\ ~myBankLocked
  /\ myFastJumpActive # 0
  /\ myJMPoperandAddress = Offset(last'.address)

\* JMP $0000 in the active bank at a window offset
JmpAt(offset) ==
  /\ BankByte(offset) = 76
  /\ BankByte(offset + 1) = 0
  /\ BankByte(offset + 2) = 0

\* C5: unlocked, bus stuffing on, no fast jump armed, ROM 4C 00 00 at A:
\* peek(A) returns 0x4C and arms the count to 2 with operand address A+1;
\* a peek at the operand address with the count at 2 or 1 returns the next
\* byte of stream 17, moves that stream on by one and takes the count down
\* by one; with the count at 0 a peek takes nothing from stream 17.
FastJumpSequence ==
  [][(last'.op = "peek" /\ Window(last'.address) /\ ~myBankLocked) =>
       /\ (BUS_STUFF_ON(Cart) /\ myFastJumpActive = 0
             /\ JmpAt(Offset(last'.address))) =>
            /\ last'.ret = 76
            /\ myFastJumpActive' = 2
            /\ myJMPoperandAddress' = Offset(last'.address) + 1
       /\ (myFastJumpActive \in {1, 2}
             /\ myJMPoperandAddress = Offset(last'.address)) =>
            /\ last'.ret = JumpByte
            /\ myFastJumpActive' = myFastJumpActive - 1
            /\ myJMPoperandAddress' = Offset(last'.address) + 1
            /\ JumpPointer' = Add32(JumpPointer, W32(16, 0))
       /\ myFastJumpActive = 0 => JumpPointer' = JumpPointer]_vars

\* peek(A), peek(A+1), peek(A+2) done at A = $100: two bytes of the stream used
FastJumpCompleted ==
  /\ last.op = "peek" /\ last.address = 4354
  /\ myFastJumpActive = 0 /\ myJMPoperandAddress = 259
  /\ JumpPointer = W32(96, 0)

\* C6: unlocked, count nonzero, offset equal to the operand address: the
\* peek returns the jump-stream byte, and the only state it changes is the
\* count, the operand address and the pointer of stream 17 - no bank switch,
\* no re-arming, no command-stream or amplitude read, no change to the
\* pending store-opcode or override addresses.
FastJumpHasPriority ==
  [][FastJumpServes =>
       /\ last'.ret = JumpByte
       /\ Cart' = [Cart EXCEPT
            !.myFastJumpActive = myFastJumpActive - 1,
            !.myJMPoperandAddress = myJMPoperandAddress + 1,
            !.myBUSRAM = setDatastreamPointer(myBUSRAM, JUMPSTREAM,
                                              Add32(JumpPointer, W32(16, 0)))]]_vars

\* The operand byte of a JMP at $FF6 of bank 0 served at the hotspot $FF7
ServedAtBankHotspot ==
  /\ last.op = "peek" /\ last.address = 8183
  /\ myCurrentBank = 0 /\ myFastJumpActive = 1 /\ myMode = 0
  /\ myJMPoperandAddress = 4088

\* C7 as claimed: at every window offset below 0x40 peek returns the ROM
\* byte of the active bank and changes no detector state, reads no stream.
LowRangeIsPassthrough ==
  [][(last'.op = "peek" /\ Window(last'.address)
        /\ Offset(last'.address) < 64) =>
       /\ last'.ret = BankByte(Offset(last'.address))
       /\ UNCHANGED <<myFastJumpActive, myJMPoperandAddress,
                      mySTYZeroPageAddress, myBusOverdriveAddress,
                      myBUSRAM>>]_vars

\* C7 amended: a window offset below 0x40 is decoded like any other offset
\* that is not a register. A peek there that the fast jump does not serve
\* returns the ROM byte of the active bank, reads no datastream and changes
\* no RAM, bank, mapping, mode or voice state, but the detectors run: with
\* the bank unlocked and bus stuffing on, JMP $0000 there arms the fast jump
\* (count 2, operand address offset + 1); a peek that does not arm clears
\* the operand address and leaves the pending store-opcode address at
\* offset + 1 (stuffing on, byte 0x84) or at 0.
LowRangeIsDecoded ==
  [][(last'.op = "peek" /\ Window(last'.address)
        /\ Offset(last'.address) < 64 /\ ~FastJumpServes) =>
       /\ last'.ret = BankByte(Offset(last'.address))
       /\ UNCHANGED <<QuietRegisters, myBUSRAM>>
       /\ IF myBankLocked
          THEN Cart' = Cart
          ELSE IF BUS_STUFF_ON(Cart) /\ JmpAt(Offset(last'.address))
          THEN /\ myFastJumpActive' = 2
               /\ myJMPoperandAddress' = Offset(last'.address) + 1
               /\ UNCHANGED <<mySTYZeroPageAddress, myBusOverdriveAddress>>
          ELSE /\ myFastJumpActive' = myFastJumpActive
               /\ myJMPoperandAddress' = 0
               /\ mySTYZeroPageAddress' =
                    IF BUS_STUFF_ON(Cart) /\ last'.ret = 132
                    THEN Offset(last'.address) + 1 ELSE 0]_vars

\* JMP $0000 at $010 of bank 6 has armed the fast jump
ArmedBelow40 ==
  /\ last.op = "peek" /\ last.address = 4112 /\ last.ret = 76
  /\ myCurrentBank = 6
  /\ myFastJumpActive = 2 /\ myJMPoperandAddress = 17

\* What a write below the window hands on when nothing overrides it
PassedOn(address, value) == IF Peripheral(address) = "none" THEN -1 ELSE value

\* C8: a poke below the window to an address other than the pending
\* override address passes the value on as written, reads no datastream,
\* changes no map entry or pointer, and leaves the pending address at the
\* sentinel 0xFF - so with the sentinel pending no poke is overridden.
OtherWriteClearsOverride ==
  [][(last'.op = "poke" /\ ~Window(last'.address)
        /\ last'.address # myBusOverdriveAddress) =>
       /\ last'.bus = PassedOn(last'.address, last'.value)
       /\ Cart' = [Cart EXCEPT !.myBusOverdriveAddress = 255]]_vars

\* An override pending for $30 cleared by a write to $11
OverrideCleared ==
  /\ last.op = "poke" /\ last.od = 48 /\ last.address = 17
  /\ last.bus = 255 /\ myBusOverdriveAddress = 255

\* The override of a write to the pending address: the map entry, the
\* stream it selects, and the byte that stream gives
PendingMap == getAddressMap(myBUSRAM, myBusOverdriveAddress % 128)
PendingStream == Lo(PendingMap) % 16
PendingByte ==
  RamAt(myBUSRAM, DSRAM + Shr32(getDatastreamPointer(myBUSRAM, PendingStream), 20))
PendingRAM ==
  setAddressMap(
    setDatastreamPointer(myBUSRAM, PendingStream,
      Add32(getDatastreamPointer(myBUSRAM, PendingStream),
            Shl12(Lo(getDatastreamIncrement(myBUSRAM, PendingStream))))),
    myBusOverdriveAddress % 128,
    W32((Hi(PendingMap) \div 16) + PendingStream * 4096,
        (Lo(PendingMap) \div 16) + (Hi(PendingMap) % 16) * 4096))

\* C9 as claimed: a poke to the pending address A delivers the stream byte
\* in place of the written value, rotates the map entry once, advances the
\* stream once and leaves the sentinel pending.
OverrideReplacesValue ==
  [][(last'.op = "poke" /\ ~Window(last'.address)
        /\ myBusOverdriveAddress # 255
        /\ last'.address = myBusOverdriveAddress) =>
       /\ last'.bus = PendingByte
       /\ myBUSRAM' = PendingRAM
       /\ myBusOverdriveAddress' = 255]_vars

\* C9 amended: a poke of v to the pending address A with (A & 0x7F) <= 0x24
\* delivers v AND the stream byte (the stream pulls bits low, it does not
\* replace v), rotates map entry A & 0x7F once, advances the selected stream
\* by its 16-bit increment << 12 and leaves the sentinel pending; with
\* (A & 0x7F) > 0x24 the value passes unchanged, nothing is read or rotated,
\* and the sentinel is left pending.
OverrideMasksValue ==
  [][(last'.op = "poke" /\ ~Window(last'.address)
        /\ last'.address = myBusOverdriveAddress) =>
       IF myBusOverdriveAddress % 128 <= 36
       THEN /\ last'.bus = BitAnd(last'.value, PendingByte)
            /\ Cart' = [Cart EXCEPT !.myBUSRAM = PendingRAM,
                                    !.myBusOverdriveAddress = 255]
       ELSE /\ last'.bus = PassedOn(last'.address, last'.value)
            /\ Cart' = [Cart EXCEPT !.myBusOverdriveAddress = 255]]_vars

\* STY $10 seen, $0F written to $10 while the stream gives $A5: $05 delivered
OverrideMasked ==
  /\ last.op = "poke" /\ last.od = 16 /\ last.address = 16
  /\ last.value = 15 /\ last.bus = 5
  /\ getAddressMap(myBUSRAM, 16) = W32(0, 1)
  /\ myBusOverdriveAddress = 255

\* (inc << 12) of a 32-bit increment, as a uInt32
Shl12Full(inc) == W32((Hi(inc) % 16) * 4096 + (Lo(inc) \div 16), (Lo(inc) % 16) * 4096)

\* The stream a read is about, before the read
ReadPointer == getDatastreamPointer(myBUSRAM, last'.address)
ReadIncrement == getDatastreamIncrement(myBUSRAM, last'.address)

\* C10 as claimed: a read returns the display byte at p >> 20 and leaves
\* the pointer at (p + (inc << 12)) mod 2^32 with inc the full 32-bit
\* increment of the table.
ReadAdvancesByFullIncrement ==
  [][last'.op = "read" =>
       /\ last'.ret = RamAt(myBUSRAM, DSRAM + Shr32(ReadPointer, 20))
       /\ getDatastreamPointer(myBUSRAM', last'.address) =
            Add32(ReadPointer, Shl12Full(ReadIncrement))]_vars

\* C10 amended: a read returns the display byte at p >> 20 as it was before
\* the call and leaves the pointer at (p + ((inc mod 2^16) << 12)) mod 2^32:
\* only the low 16 bits of the stored increment are used; nothing else in
\* RAM changes.
ReadAdvancesByLowIncrement ==
  [][last'.op = "read" =>
       /\ last'.ret = RamAt(myBUSRAM, DSRAM + Shr32(ReadPointer, 20))
       /\ myBUSRAM' = setDatastreamPointer(myBUSRAM, last'.address,
            Add32(ReadPointer, Shl12(Lo(ReadIncrement) % 65536)))]_vars

\* One read of a stream at 0 whose stored increment is $00010100
ReadWithWideIncrement ==
  /\ last.op = "read" /\ last.ret = 1
  /\ getDatastreamIncrement(myBUSRAM, last.address) = W32(1, 256)
  /\ getDatastreamPointer(myBUSRAM, last.address) = W32(16, 0)

\* The command stream's pointer
CommPointer == getDatastreamPointer(myBUSRAM, COMMSTREAM)

\* C11: a poke of v to DSWRITE stores v in display RAM at index p >> 20, p
\* the command stream's pointer before the poke, and leaves the pointer at
\* (p + 0x100000) mod 2^32 whatever the stream's increment; with the pointer
\* set back to p, a read of the stream returns v.
WriteStoresAndStepsByOne ==
  [][(last'.op = "poke" /\ Window(last'.address)
        /\ Offset(last'.address) = 4080) =>
       /\ myBUSRAM' = setDatastreamPointer(
                        RamPut(myBUSRAM, DSRAM + Shr32(CommPointer, 20), last'.value),
                        COMMSTREAM, Add32(CommPointer, W32(16, 0)))
       /\ readFromDatastream(
            setDatastreamPointer(myBUSRAM', COMMSTREAM, CommPointer),
            COMMSTREAM).value = last'.value]_vars

\* $84 written through DSWRITE at $00500000 while the stream's increment is 2
WrittenByte ==
  /\ last.op = "poke" /\ last.address = 8176 /\ last.value = 132
  /\ RamAt(myBUSRAM, DSRAM + 5) = 132
  /\ CommPointer = W32(96, 0)
  /\ getDatastreamIncrement(myBUSRAM, COMMSTREAM) = W32(0, 512)

\* A store into a table, as recorded in last: bus holds the table's base
TableStore ==
  last'.op \in {"setDatastreamPointer", "setDatastreamIncrement", "setAddressMap"}
TableCell(k) == last'.bus + last'.address * 4 + k

\* C12: a 32-bit value stored in a pointer, increment or map entry is
\* loaded back exactly; its four bytes lie little-endian at
\* base + index*4 .. +3 and no other byte of RAM changes.
TableRoundTrip ==
  [][TableStore =>
       /\ last'.ret = last'.value
       /\ RamAt(myBUSRAM', TableCell(0)) = Lo(last'.value) % 256
       /\ RamAt(myBUSRAM', TableCell(1)) = Lo(last'.value) \div 256
       /\ RamAt(myBUSRAM', TableCell(2)) = Hi(last'.value) % 256
       /\ RamAt(myBUSRAM', TableCell(3)) = Hi(last'.value) \div 256
       /\ \A a \in (DOMAIN myBUSRAM \cup DOMAIN myBUSRAM')
                     \ {TableCell(0), TableCell(1), TableCell(2), TableCell(3)} :
            RamAt(myBUSRAM', a) = RamAt(myBUSRAM, a)]_vars

\* $12345678 stored as the jump stream's increment: 78 56 34 12
StoredLittleEndian ==
  /\ last.op = "setDatastreamIncrement" /\ last.address = JUMPSTREAM
  /\ last.ret = W32(4660, 22136)
  /\ RamAt(myBUSRAM, DSxINC + 68) = 120 /\ RamAt(myBUSRAM, DSxINC + 71) = 18

\* The fields save() writes, as the cartridge holds them
SavedState ==
  <<myCurrentBank, myBUSRAM, myBusOverdriveAddress, mySTYZeroPageAddress,
    myJMPoperandAddress, mySystemCycles, myFractionalClocks, myARMCycles,
    myMusicCounters, myMusicFrequencies, myMusicWaveformSize, myMode,
    myFastJumpActive>>

\* C13: load() of the bytes save() has just written returns true and
\* restores every saved field exactly - bank, RAM, the three addresses, the
\* cycle records, the fractional accumulator, the voices, mode and
\* fast-jump count.
RoundTripRestoresEveryField ==
  [][(last'.op = "load" /\ last'.address = StreamFields /\ last'.value = 1
        /\ stream = save(Cart)) =>
       (last'.ret = TRUE /\ SavedState' = SavedState)]_vars

\* C14: load() of a stream whose tag is not the cartridge's name returns
\* false and changes no field of the cartridge and no page mapping.
WrongTagChangesNothing ==
  [][(last'.op = "load" /\ last'.value = 0) =>
       (last'.ret = FALSE /\ Cart' = Cart)]_vars

\* A state saved in bank 6 refused in bank 0 because of its tag
WrongTagRefused ==
  /\ last.op = "load" /\ last.value = 0 /\ last.address = StreamFields
  /\ last.ret = FALSE
  /\ stream # <<>> /\ stream[2] = 6 /\ myCurrentBank = 0 /\ pageAccess = 0

\* C15: load() of a stream with the right tag cut at a field boundary
\* returns false and leaves every field of the cartridge as it was.
TruncatedLoadChangesNothing ==
  [][(last'.op = "load" /\ last'.value = 1 /\ last'.address < StreamFields) =>
       (last'.ret = FALSE /\ Cart' = Cart)]_vars

\* C16 as claimed: whenever load() returns true, the bank is the saved one
\* and the page mapping is that bank's, the bank lock held or not.
LoadAlwaysRemaps ==
  [][(last'.op = "load" /\ last'.ret = TRUE) =>
       /\ myCurrentBank' = stream[2]
       /\ pageAccess' = 4096 * stream[2]]_vars

\* C16 amended: whenever load() returns true, getBank() is the saved bank;
\* with the bank unlocked the bank has been re-applied through bank() - the
\* page mapping is the saved bank's and the bank-changed flag is set; with
\* the bank lock held bank() refuses and the page mapping stays what it was.
LoadRemapsWhenUnlocked ==
  [][(last'.op = "load" /\ last'.ret = TRUE) =>
       /\ myCurrentBank' = stream[2]
       /\ IF myBankLocked
          THEN pageAccess' = pageAccess /\ myBankChanged' = myBankChanged
          ELSE pageAccess' = 4096 * stream[2] /\ myBankChanged' = TRUE]_vars

\* A state saved in bank 6 loaded while bank 0 was mapped
LoadRemapped ==
  /\ last.op = "load" /\ last.ret = TRUE /\ last.od = 0
  /\ ~myBankLocked /\ myCurrentBank = 6 /\ pageAccess = 24576

\* C17: for every voice and every 32-bit table entry raw, the waveform base
\* is raw - 0x40000800 when raw lies in 0x40000800..0x400017FF and 0 for
\* every other raw, those below 0x40000800 (which wrap) included; it is
\* always in 0..4095.
WaveformBaseClamped ==
  [][last'.op = "getWaveform" =>
       /\ Hi(last'.ret) = 0
       /\ Lo(last'.ret) \in 0..4095
       /\ Lo(last'.ret) =
            IF Hi(last'.value) = 16384 /\ Lo(last'.value) \in 2048..6143
            THEN Lo(last'.value) - 2048 ELSE 0]_vars

\* An entry one below the origin, which wraps to $FFFFFFFF, gives base 0
WrappedBaseClamped ==
  /\ last.op = "getWaveform" /\ last.address = 2
  /\ last.value = W32(16384, 2047) /\ last.ret = Zero32
  /\ getWaveform(myBUSRAM, 0) = W32(0, 4095)

\* The cartridge with its voices as they were at the start, and the one
\* update that covers all the cycles since
VoicesAtStart ==
  [Cart EXCEPT !.myFractionalClocks = last.value.myFractionalClocks,
               !.myMusicCounters = last.value.myMusicCounters,
               !.mySystemCycles = last.value.mySystemCycles]
OneUpdate == updateMusicModeDataFetchers(VoicesAtStart, mySystemCycles)

\* C18: after any sequence of updates with non-negative cycle deltas, the
\* whole clocks applied plus the fraction left equal the starting fraction
\* plus (sum of the deltas) * 20000 / masterClockHz, and the voice counters
\* and the fraction are what one update with the summed delta leaves.
NoCycleLost ==
  last.op = "update" =>
    /\ 143183 * last.ret + myFractionalClocks[1] =
         last.value.myFractionalClocks[1]
           + 2400 * (mySystemCycles - last.value.mySystemCycles)
    /\ myFractionalClocks[2] = last.value.myFractionalClocks[2]
    /\ myMusicCounters = OneUpdate.myMusicCounters
    /\ myFractionalClocks = OneUpdate.myFractionalClocks

\* Two updates of 59 cycles, neither worth a clock, together worth one
TwoSmallUpdatesMakeOneClock ==
  /\ last.op = "update" /\ last.address = 59 /\ last.ret = 1
  /\ mySystemCycles = 118
  /\ last.value.myFractionalClocks = <<0, 0>>
  /\ myFractionalClocks = <<140017, 0>>
  /\ myMusicFrequencies[0] = W32(16, 0)
  /\ myMusicCounters[0] = W32(15, 65535)

\* C19: a poke of 254 or 255 to CALLFN runs the interpreter, and when the
\* run fails the failure stays inside poke: poke returns as ever, the
\* coprocessor-cycle record is the current cycle, and a diagnostic is
\* reported exactly when the system is not autodetecting; a poke of another
\* value to CALLFN runs nothing, reports nothing and changes no state.
CoprocessorFaultAbsorbed ==
  [][(last'.op = "poke" /\ Window(last'.address)
        /\ Offset(last'.address) = 4083) =>
       IF last'.value \in {254, 255}
       THEN /\ last'.thumb
            /\ last'.ret = FALSE
            /\ ~last'.escaped
            /\ last'.diag = (last'.fault # "none" /\ ~last'.autodetect)
            /\ myARMCycles' = cycles
       ELSE /\ ~last'.thumb /\ ~last'.diag /\ ~last'.escaped
            /\ Cart' = Cart]_vars

\* A failed run while autodetecting: nothing reported, poke returned
FaultAbsorbedSilently ==
  /\ last.op = "poke" /\ last.address = 8179 /\ last.value = 255
  /\ last.thumb /\ last.fault = "runtime_error" /\ last.autodetect
  /\ ~last.diag /\ ~last.escaped
  /\ myARMCycles = 60

\* A second cartridge built from the same ROM image, nothing done to it yet
\* (what the constructor does not set is zero), and its state after a reset
\* at the system's cycles with RAM randomization off
OtherCart ==
  [myImage |-> myImage, myBUSRAM |-> EmptyMem, myCurrentBank |-> 6,
   myBankLocked |-> FALSE, myBankChanged |-> TRUE, pageAccess |-> 24576,
   myBusOverdriveAddress |-> 0, mySTYZeroPageAddress |-> 0,
   myJMPoperandAddress |-> 0, myFastJumpActive |-> 0, myMode |-> 255,
   mySystemCycles |-> 0, myARMCycles |-> 0, myFractionalClocks |-> <<0, 0>>,
   myMusicCounters |-> [x \in 0..2 |-> Zero32],
   myMusicFrequencies |-> [x \in 0..2 |-> Zero32],
   myMusicWaveformSize |-> [x \in 0..2 |-> 27]]
OtherCartReset == reset(OtherCart, cycles, EmptyMem)

\* C20: after reset() with RAM randomization off and the bank unlocked the
\* complete mutable state is the state of any other cartridge of the same
\* ROM image reset at the same clock, whatever the state before: RAM, bank,
\* mode, waveform sizes, voice counters and frequencies, fast-jump count
\* and operand address, the pending addresses, both cycle records and the
\* fractional accumulator.
ResetForgetsEverything ==
  [][(last'.op = "reset" /\ last'.address = 0 /\ ~myBankLocked) =>
       /\ myBUSRAM' = OtherCartReset.myBUSRAM
       /\ myCurrentBank' = OtherCartReset.myCurrentBank
       /\ pageAccess' = OtherCartReset.pageAccess
       /\ myMode' = OtherCartReset.myMode
       /\ myMusicWaveformSize' = OtherCartReset.myMusicWaveformSize
       /\ myMusicCounters' = OtherCartReset.myMusicCounters
       /\ myMusicFrequencies' = OtherCartReset.myMusicFrequencies
       /\ myFastJumpActive' = OtherCartReset.myFastJumpActive
       /\ myJMPoperandAddress' = OtherCartReset.myJMPoperandAddress
       /\ mySTYZeroPageAddress' = OtherCartReset.mySTYZeroPageAddress
       /\ myBusOverdriveAddress' = OtherCartReset.myBusOverdriveAddress
       /\ mySystemCycles' = OtherCartReset.mySystemCycles
       /\ myARMCycles' = OtherCartReset.myARMCycles
       /\ myFractionalClocks' = OtherCartReset.myFractionalClocks]_vars


\* C21 as claimed: after construction and after reset() the mode byte is the
\* all-features-enabled default: bus stuffing is on, so the JMP-pattern and
\* store-opcode detectors of peek are active.
DefaultModeEnablesStuffing ==
  last.op \in {"init", "reset"} => BUS_STUFF_ON(Cart)

\* C21 amended: after construction and after reset() the mode byte is 0xFF,
\* and with 0xFF bus stuffing is off (as is digital audio). Until a poke to
\* SETMODE stores a value with a zero low nibble, an unlocked peek of the
\* window that the fast jump does not serve arms no fast jump, records no
\* store-opcode address (it is left at 0) and sets no override address,
\* whatever the ROM byte is.
DefaultModeDisablesStuffing ==
  /\ [](last.op \in {"init", "reset"} =>
          (myMode = 255 /\ ~BUS_STUFF_ON(Cart) /\ ~DIGITAL_AUDIO_ON(Cart)))
  /\ [][(last'.op = "peek" /\ Window(last'.address) /\ ~myBankLocked
           /\ myMode = 255 /\ ~FastJumpServes) =>
          /\ myFastJumpActive' = myFastJumpActive
          /\ myJMPoperandAddress' = 0
          /\ mySTYZeroPageAddress' = 0
          /\ myBusOverdriveAddress' = myBusOverdriveAddress
          /\ myMode' = 255]_vars

\* The STY opcode at $200 of bank 6 read with the default mode: no
\* store-opcode address is recorded, no fast jump is armed
DefaultModePeeksArmNothing ==
  /\ last.op = "peek" /\ last.address = 4608 /\ last.ret = 132
  /\ myMode = 255 /\ myCurrentBank = 6 /\ ~myBankLocked
  /\ myFastJumpActive = 0 /\ mySTYZeroPageAddress = 0


\* C22: in every state reachable by peek, poke, bank(n) for any 16-bit n,
\* patch, reset and successful load, the active bank index is in 0..6
\* (getBank() < bankCount() = 7), so (bank << 12) + offset lies inside the
\* 28K of program banks.
BankIndexInRange ==
  /\ myCurrentBank \in 0..6
  /\ myCurrentBank * 4096 + 4095 < 7 * 4096


\* The entries of a table that lie inside its slot of the RAM image: the
\* pointers from DSxPTR up to DSxINC, the increments up to DSMAPS, the maps
\* up to WAVEFORM, the waveform offsets up to DSRAM
PointerSlots == 0..((DSxINC - DSxPTR) \div 4 - 1)
IncrementSlots == 0..((DSMAPS - DSxINC) \div 4 - 1)
MapSlots == 0..((WAVEFORM - DSMAPS) \div 4 - 1)
WaveformSlots == 0..((DSRAM - WAVEFORM) \div 4 - 1)

\* The entries of a table at the given indexes
Entries(ram, base, indexes) == [i \in indexes |-> GetWord(ram, base, i)]

\* No byte of RAM outside the four bytes of entry index of the table at base
\* differs between the two images
OnlyEntryChanged(before, after, base, index) ==
  \A a \in (DOMAIN before) \cup (DOMAIN after) :
    a \notin (base + index * 4)..(base + index * 4 + 3) =>
      RamAt(after, a) = RamAt(before, a)

\* C23 as claimed: for every index 0..23, storing a pointer changes only
\* the four bytes of that pointer entry - every increment entry 0..23, every
\* map entry and every waveform entry reads as before - and storing an
\* increment changes no pointer, map or waveform entry.
TablesOf24Disjoint ==
  [][/\ (last'.op = "setDatastreamPointer" /\ last'.address \in 0..23) =>
          /\ OnlyEntryChanged(myBUSRAM, myBUSRAM', DSxPTR, last'.address)
          /\ Entries(myBUSRAM', DSxINC, 0..23) = Entries(myBUSRAM, DSxINC, 0..23)
          /\ Entries(myBUSRAM', DSMAPS, MapSlots) = Entries(myBUSRAM, DSMAPS, MapSlots)
          /\ Entries(myBUSRAM', WAVEFORM, WaveformSlots)
               = Entries(myBUSRAM, WAVEFORM, WaveformSlots)
     /\ (last'.op = "setDatastreamIncrement" /\ last'.address \in 0..23) =>
          /\ Entries(myBUSRAM', DSxPTR, 0..23) = Entries(myBUSRAM, DSxPTR, 0..23)
          /\ Entries(myBUSRAM', DSMAPS, MapSlots) = Entries(myBUSRAM, DSMAPS, MapSlots)
          /\ Entries(myBUSRAM', WAVEFORM, WaveformSlots)
               = Entries(myBUSRAM, WAVEFORM, WaveformSlots)]_vars

\* C23 amended: the pointer table has 18 entries (DSxPTR up to DSxINC) and
\* the increment table 16 (DSxINC up to DSMAPS). Storing a pointer at an
\* index in 0..17 changes only the four bytes of that entry: every
\* increment entry 0..15, every map entry and every waveform entry reads as
\* before; storing an increment at an index in 0..15 changes only the four
\* bytes of that entry: no pointer entry 0..17, map or waveform entry
\* changes.
TableSlotsDisjoint ==
  [][/\ (last'.op = "setDatastreamPointer" /\ last'.address \in PointerSlots) =>
          /\ OnlyEntryChanged(myBUSRAM, myBUSRAM', DSxPTR, last'.address)
          /\ Entries(myBUSRAM', DSxINC, IncrementSlots)
               = Entries(myBUSRAM, DSxINC, IncrementSlots)
          /\ Entries(myBUSRAM', DSMAPS, MapSlots) = Entries(myBUSRAM, DSMAPS, MapSlots)
          /\ Entries(myBUSRAM', WAVEFORM, WaveformSlots)
               = Entries(myBUSRAM, WAVEFORM, WaveformSlots)
     /\ (last'.op = "setDatastreamIncrement" /\ last'.address \in IncrementSlots) =>
          /\ OnlyEntryChanged(myBUSRAM, myBUSRAM', DSxINC, last'.address)
          /\ Entries(myBUSRAM', DSxPTR, PointerSlots)
               = Entries(myBUSRAM, DSxPTR, PointerSlots)
          /\ Entries(myBUSRAM', DSMAPS, MapSlots) = Entries(myBUSRAM, DSMAPS, MapSlots)
          /\ Entries(myBUSRAM', WAVEFORM, WaveformSlots)
               = Entries(myBUSRAM, WAVEFORM, WaveformSlots)]_vars

\* The last pointer entry (17) and the last increment entry (15) stored,
\* with the first increment entry still as the driver left it
LastSlotsStored ==
  /\ last.op = "setDatastreamIncrement" /\ last.address = 15
  /\ last.value = W32(65535, 65535)
  /\ getDatastreamPointer(myBUSRAM, JUMPSTREAM) = W32(4660, 22136)
  /\ getDatastreamIncrement(myBUSRAM, 0) = W32(1, 256)
  /\ getAddressMap(myBUSRAM, 0) = W32(0, 512)


\* C24: the store-opcode detector fires only on a value that the register
\* switch left as it was: a peek records offset + 1 as the pending
\* store-opcode address only when the ROM byte at the offset is 0x84 and is
\* what the peek returns; a peek of AMPLITUDE or DSREAD whose computed
\* result is 0x84 records nothing.
StoreDetectorSeesRomOnly ==
  [][(last'.op = "peek" /\ Window(last'.address) /\ ~myBankLocked
        /\ ~FastJumpServes) =>
       /\ mySTYZeroPageAddress' = Offset(last'.address) + 1 =>
            (BankByte(Offset(last'.address)) = 132 /\ last'.ret = 132)
       /\ Offset(last'.address) \in {4078, 4079} =>
            mySTYZeroPageAddress' # Offset(last'.address) + 1]_vars


\* C25: the fast-jump count, 0, 1 or 2 at the start, is 0, 1 or 2 after any
\* sequence of peek, poke, bank, patch and bus-override calls; only a peek
\* changes it, setting it to 2 when it detects JMP $0000 or taking it down
\* by exactly 1 when it serves a jump-stream byte, and never below 0.
FastJumpCountInRange ==
  /\ [](myFastJumpActive \in {0, 1, 2})
  /\ [][myFastJumpActive' # myFastJumpActive =>
          /\ last'.op = "peek" /\ Window(last'.address) /\ ~myBankLocked
          /\ IF FastJumpServes
             THEN myFastJumpActive' = myFastJumpActive - 1
             ELSE /\ myFastJumpActive' = 2
                  /\ BUS_STUFF_ON(Cart)
                  /\ JmpAt(Offset(last'.address))]_vars

\* Armed at $100 with a count of 1 left over, one operand byte served, then
\* a peek elsewhere: the count still stands at 1
CountKeptAcrossOtherPeek ==
  /\ last.op = "peek" /\ last.address = 4608
  /\ myFastJumpActive = 1 /\ myJMPoperandAddress = 0
  /\ myMode = 0 /\ JumpPointer = W32(80, 0)


\* C26: a poke of v to DSPTR with command-stream pointer p sets the pointer
\* to ((p << 8) & 0xF0000000) | (v << 20); hence after two consecutive DSPTR
\* pokes h then l the integer part (pointer >> 20) is ((h & 0x0F) << 8) | l
\* and the 20 fraction bits are zero, whatever the pointer was before.
PointerLoadShiftsAndMerges ==
  [][(last'.op = "poke" /\ Window(last'.address)
        /\ Offset(last'.address) = 4081) =>
       /\ CommPointer' = W32((Shr32(CommPointer, 20) % 16) * 4096
                               + last'.value * 16, 0)
       /\ (last.op = "poke" /\ Window(last.address)
             /\ Offset(last.address) = 4081) =>
            /\ Shr32(CommPointer', 20) = (last.value % 16) * 256 + last'.value
            /\ Lo(CommPointer') = 0
            /\ Hi(CommPointer') % 16 = 0]_vars

\* DSPTR written $AB then $05 after a DSWRITE had moved the pointer: the
\* integer part is $B05
PointerLoadedInTwoBytes ==
  /\ last.op = "poke" /\ last.address = 8177 /\ last.value = 5
  /\ CommPointer = W32(45136, 0)
  /\ RamAt(myBUSRAM, DSRAM + 5) = 132


\* A window offset that is one of the seven bank-select hotspots $FF5..$FFB
Hotspot(address) ==
  Window(address) /\ Offset(address) >= 4085 /\ Offset(address) <= 4091

\* C27: with the bank unlocked, a poke at window offset $FF5 + n makes bank
\* n active, and so does a peek there that neither the fast jump serves nor
\* the JMP-pattern detector takes; such a peek returns the ROM byte of the
\* bank that was active before it; no peek or poke at another offset
\* changes the active bank.
HotspotsSelectBank ==
  [][/\ (last'.op = "poke" /\ Hotspot(last'.address) /\ ~myBankLocked) =>
          /\ myCurrentBank' = Offset(last'.address) - 4085
          /\ pageAccess' = 4096 * myCurrentBank'
     /\ (last'.op = "peek" /\ Hotspot(last'.address) /\ ~myBankLocked
           /\ ~FastJumpServes
           /\ ~(BUS_STUFF_ON(Cart) /\ JmpAt(Offset(last'.address)))) =>
          /\ myCurrentBank' = Offset(last'.address) - 4085
          /\ pageAccess' = 4096 * myCurrentBank'
          /\ last'.ret = BankByte(Offset(last'.address))
     /\ (last'.op \in {"peek", "poke"} /\ ~Hotspot(last'.address)) =>
          /\ myCurrentBank' = myCurrentBank
          /\ pageAccess' = pageAccess]_vars

\* A peek at $FF6 in bank 0, where the ROM holds $4C (bank 1 holds $EA
\* there), with bus stuffing off: bank 1 is active and $4C was returned
HotspotPeekSwitched ==
  /\ last.op = "peek" /\ last.address = 8182 /\ last.ret = 76
  /\ myCurrentBank = 1 /\ pageAccess = 4096 /\ BankByte(4086) = 234


\* An unlocked peek of the window that returns early: the fast jump serves
\* it, or it detects JMP $0000
PeekIntercepted ==
  \/ FastJumpServes
  \/ /\ last'.op = "peek" /\ Window(last'.address) /\ ~myBankLocked
     /\ BUS_STUFF_ON(Cart) /\ JmpAt(Offset(last'.address))

\* The last call was a peek at a window offset A that returned 0x84 and
\* recorded A + 1 as the pending store-opcode address
StoreOpcodeSeen ==
  /\ last.op = "peek" /\ Window(last.address) /\ last.ret = 132
  /\ mySTYZeroPageAddress = Offset(last.address) + 1

\* C28 as claimed: unlocked, after a peek at A returned 0x84, the following
\* peek at A + 1 with bus stuffing on sets the pending override address to
\* the ROM byte at A + 1; a following peek at any other offset, or with bus
\* stuffing off, leaves the pending override address unchanged and drops
\* the pending store-opcode address.
OverrideArmedInTwoSteps ==
  [][(StoreOpcodeSeen /\ last'.op = "peek" /\ Window(last'.address)
        /\ ~myBankLocked) =>
       IF Offset(last'.address) = mySTYZeroPageAddress /\ BUS_STUFF_ON(Cart)
       THEN myBusOverdriveAddress' = BankByte(Offset(last'.address))
       ELSE /\ myBusOverdriveAddress' = myBusOverdriveAddress
            /\ mySTYZeroPageAddress' # mySTYZeroPageAddress]_vars

\* C28 amended: with the bank unlocked, a window peek that is not intercepted
\* (not served by the fast jump, no JMP $0000 detected) at the pending
\* store-opcode address with bus stuffing on sets the pending override
\* address to the ROM byte there; at any other offset, or with bus stuffing
\* off, it leaves the pending override address unchanged; either way the
\* pending store-opcode address is dropped (0, or offset + 1 if this peek
\* returned 0x84 itself). An intercepted peek changes neither pending
\* address. The next poke below the window clears the pending override
\* address, and is ANDed with the stream byte if it is to that address Z
\* and (Z & 0x7F) <= 0x24.
OverrideArmedUnlessIntercepted ==
  [][/\ (last'.op = "peek" /\ Window(last'.address) /\ ~myBankLocked
           /\ ~PeekIntercepted) =>
          /\ myBusOverdriveAddress' =
               IF BUS_STUFF_ON(Cart)
                    /\ mySTYZeroPageAddress = Offset(last'.address)
               THEN BankByte(Offset(last'.address))
               ELSE myBusOverdriveAddress
          /\ mySTYZeroPageAddress' \in {0, Offset(last'.address) + 1}
          /\ mySTYZeroPageAddress' # 0 =>
               (BUS_STUFF_ON(Cart) /\ last'.ret = 132)
     /\ PeekIntercepted =>
          /\ myBusOverdriveAddress' = myBusOverdriveAddress
          /\ mySTYZeroPageAddress' = mySTYZeroPageAddress
     /\ (last'.op = "poke" /\ ~Window(last'.address)) =>
          /\ myBusOverdriveAddress' = 255
          /\ (last'.address = myBusOverdriveAddress
                /\ myBusOverdriveAddress % 128 <= 36) =>
               last'.bus = BitAnd(last'.value, PendingByte)]_vars

\* Mode set, STY at $200 and its operand $10 at $201 read, $FF written to
\* $10 in a cartridge whose RAM and pending addresses started at zero: the
\* write is overridden with the stream's byte 0
TwoStepOverrideDone ==
  /\ last.op = "poke" /\ last.address = 16 /\ last.od = 16
  /\ last.value = 255 /\ last.bus = 0
  /\ RamAt(myBUSRAM, DSRAM + 4) = 0
  /\ getAddressMap(myBUSRAM, 16) = W32(0, 1)


\* C29: a peek takes a byte from the jump stream only at the operand of a
\* detected jump: it is served from the stream only if its window offset is
\* A + 1 or A + 2, A the offset of the most recent peek that detected
\* JMP $0000; after a peek at another offset has intervened, no peek at an
\* unrelated offset (such as offset 0) is served.
ServedOnlyAtJumpOperand ==
  [][FastJumpServes =>
       /\ last.armed # -1
       /\ Offset(last'.address) \in {last.armed + 1, last.armed + 2}
       /\ JumpPointer' = Add32(JumpPointer, W32(16, 0))]_vars


\* C30: an override is armed only by a store opcode: a peek changes the
\* pending override address only if the window peek just before it returned
\* 0x84 at the offset one below with bus stuffing on; so a peek at window
\* offset 0 with no 0x84 before it never changes the pending address.
ArmedOnlyByStoreOpcode ==
  [][(last'.op = "peek"
        /\ myBusOverdriveAddress' # myBusOverdriveAddress) =>
       /\ last.peeked.ret = 132
       /\ last.peeked.stuffing
       /\ last.peeked.offset + 1 = Offset(last'.address)]_vars


\* The RAM offset a datastream operation with pointer p reads or writes
StreamCell(p) == DSRAM + Shr32(p, 20)

\* The cells of display RAM a datastream can reach: 0x0800..0x17FF
DisplayCells == DSRAM..(DSRAM + 4095)

\* The cells of RAM that differ between two images
ChangedCells(before, after) ==
  {a \in (DOMAIN before) \cup (DOMAIN after) : RamAt(after, a) # RamAt(before, a)}

\* The four bytes of the command stream's pointer entry
CommPointerCells == (DSxPTR + COMMSTREAM * 4)..(DSxPTR + COMMSTREAM * 4 + 3)

\* A poke to DSWRITE, a peek of DSREAD (bank unlocked)
WritesStream ==
  last'.op = "poke" /\ Window(last'.address) /\ Offset(last'.address) = 4080
ReadsStream ==
  /\ last'.op = "peek" /\ Window(last'.address) /\ Offset(last'.address) = 4079
  /\ ~myBankLocked

\* C31 as claimed: the byte a datastream operation reads or writes is at
\* RAM offset 0x0800 + (pointer >> 20), inside 0x0800..0x17FF; hence a
\* DSWRITE poke modifies no byte of the driver copy, the pointer table, the
\* increment table, the map table or the waveform table.
WriteLeavesTablesAlone ==
  [][WritesStream =>
       /\ StreamCell(CommPointer) \in DisplayCells
       /\ \A a \in ChangedCells(myBUSRAM, myBUSRAM') : a >= DSRAM]_vars

\* C31 amended: the byte a datastream operation reads or writes is at RAM
\* offset 0x0800 + (pointer >> 20), inside 0x0800..0x17FF and so inside the
\* 8192-byte RAM image. Below 0x0800 a DSWRITE poke, a DSREAD peek and a
\* read of stream i change the four bytes of that stream's own pointer
\* entry and nothing else: the data byte never lands in the driver copy or
\* in a table.
StreamsStayInDisplay ==
  [][/\ WritesStream =>
          /\ StreamCell(CommPointer) \in DisplayCells
          /\ StreamCell(CommPointer) < RamSize
          /\ RamAt(myBUSRAM', StreamCell(CommPointer)) = last'.value
          /\ ChangedCells(myBUSRAM, myBUSRAM')
               \subseteq ({StreamCell(CommPointer)} \cup CommPointerCells)
     /\ ReadsStream =>
          /\ StreamCell(CommPointer) \in DisplayCells
          /\ last'.ret = RamAt(myBUSRAM, StreamCell(CommPointer))
          /\ ChangedCells(myBUSRAM, myBUSRAM') \subseteq CommPointerCells
     /\ last'.op = "read" =>
          /\ StreamCell(ReadPointer) \in DisplayCells
          /\ StreamCell(ReadPointer) < RamSize
          /\ last'.ret = RamAt(myBUSRAM, StreamCell(ReadPointer))
          /\ OnlyEntryChanged(myBUSRAM, myBUSRAM', DSxPTR, last'.address)]_vars

\* A byte written through DSWRITE with the command stream's pointer at
\* $FFFFFFFF: it lands in the last cell of display RAM, 0x17FF, and the
\* pointer wraps to $000FFFFF
WrittenAtTopOfDisplay ==
  /\ last.op = "poke" /\ last.address = 8176
  /\ RamAt(myBUSRAM, DSRAM + 4095) = 132
  /\ CommPointer = W32(15, 65535)


\* An index inside the 32768 bytes of myImage
InImage(i) == Hi(i) = 0 /\ Lo(i) < ImageSize

\* C32: every read of the ROM image that peek makes is in bounds: for every
\* bank 0..6 and window offset, each index it uses is below 32768 - the
\* look-ahead bytes of the JMP test at offsets $FFE and $FFF of bank 6 and
\* the sample read of AMPLITUDE included.
PeekReadsInsideImage ==
  [][(last'.op = "peek" /\ Window(last'.address) /\ myCurrentBank \in 0..6) =>
       \A i \in PeekImageIndexes(Cart, Offset(last'.address), cycles) :
         InImage(i)]_vars


\* ---------------------------------------------------------------- debugger

\* Debugger::unlockBankswitchState(): the data bus lock and the cartridge
unlockBankswitchStateCartOnly(c, bus) ==
  [bus |-> bus, c |-> [c EXCEPT !.myBankLocked = FALSE]]
unlockBankswitchState(c, bus) ==
  [bus |-> FALSE, c |-> [c EXCEPT !.myBankLocked = FALSE]]

\* Debugger::lockBankswitchState()
lockBankswitchState(c, bus) ==
  [bus |-> TRUE, c |-> [c EXCEPT !.myBankLocked = TRUE]]

\* The rewind manager's fields as one record
Rewind == [mySize |-> mySize, myTop |-> myTop, myStateList |-> myStateList]

SetRewind(r) ==
  /\ mySize' = r.mySize
  /\ myTop' = r.myTop
  /\ myStateList' = r.myStateList

\* RewindManager::addState(): state is what saveState() and saveDisplay()
\* write into the Serializer of slot myTop, written the number of fields they
\* wrote before one of them failed (StreamFields: both succeeded)
addState(r, state, written) ==
  IF written = StreamFields
  THEN [r |-> [mySize |-> IF r.mySize + 1 > MAX_SIZE THEN MAX_SIZE
                          ELSE r.mySize + 1,
               myTop |-> (r.myTop + 1) % MAX_SIZE,
               myStateList |-> [r.myStateList EXCEPT ![r.myTop] = state]],
        ret |-> TRUE]
  ELSE [r |-> [r EXCEPT !.myStateList[r.myTop] = Truncated(state, written)],
        ret |-> FALSE]

\* RewindManager::rewindState(): slot is the slot whose Serializer is loaded
\* (-1: none)
rewindStateNoWrap(r) ==
  IF r.mySize > 0
  THEN LET top == IF r.myTop = 0 THEN 0 ELSE r.myTop - 1
       IN  [r |-> [r EXCEPT !.mySize = r.mySize - 1, !.myTop = top],
            slot |-> top, ret |-> TRUE]
  ELSE [r |-> r, slot |-> -1, ret |-> FALSE]
rewindState(r) ==
  IF r.mySize > 0
  THEN LET top == IF r.myTop = 0 THEN MAX_SIZE - 1 ELSE r.myTop - 1
       IN  [r |-> [r EXCEPT !.mySize = r.mySize - 1, !.myTop = top],
            slot |-> top, ret |-> TRUE]
  ELSE [r |-> r, slot |-> -1, ret |-> FALSE]

\* RewindManager::clear(): the Serializers are rewound, not emptied
clear(r) == [r EXCEPT !.myTop = 0, !.mySize = 0]

\* *(myStateList[myTop]): what the reference yields; of a null pointer,
\* anything - an empty stream, another cartridge's state
Dereferenced(s) == IF s = nullptr THEN {<<>>, save(OtherCart)} ELSE {s}

\* Debugger::setStartState(), on entering debug mode
SetStartState ==
  LET l == lockBankswitchState(Cart, myDataBusLocked)
  IN  /\ position = "emulation"
      /\ position' = "idle"
      /\ myDataBusLocked' = l.bus
      /\ SetCart(l.c)
      /\ SetRewind(clear(Rewind))
      /\ UNCHANGED <<cycles, stream, budget>>
      /\ last' = Call("setStartState", 0, 0, 0, -1, FALSE, 0)

\* Debugger::step(), nextScanline(), nextFrame() up to the call that runs the
\* emulation: saveOldState() adds a rewind level, then the locks are released.
\* last.address is the number of fields written of the state handed to
\* addState(), last.ret what addState() returned.
BeginRun(op, written) ==
  LET a == addState(Rewind, save(Cart), written)
      u == unlockBankswitchState(Cart, myDataBusLocked)
  IN  /\ position = "idle"
      /\ position' = "running"
      /\ SetRewind(a.r)
      /\ myDataBusLocked' = u.bus
      /\ SetCart(u.c)
      /\ UNCHANGED <<cycles, stream, budget>>
      /\ last' = Call(op, written, 0, a.ret, -1, FALSE, 0)

\* Debugger::trace(): the opcode at pc is read; on JSR (32) the emulation
\* runs to the return address, otherwise step(); last.value is pc
Trace(pc, g, written) ==
  LET o == peek(Cart, pc, cycles, g)
      a == addState(Rewind, save(o.c), written)
      u == unlockBankswitchState(o.c, myDataBusLocked)
      op == IF o.ret = 32 THEN "trace" ELSE "step"
  IN  /\ position = "idle"
      /\ position' = "running"
      /\ SetRewind(a.r)
      /\ myDataBusLocked' = u.bus
      /\ SetCart(u.c)
      /\ UNCHANGED <<cycles, stream, budget>>
      /\ last' = Call(op, written, pc, a.ret, -1, FALSE, 0)

\* The processor, run by the emulation or by a debugger operation, reads
\* address
Execute(address, g) ==
  LET o == peek(Cart, address, cycles, g)
  IN  /\ position \in {"running", "quit", "emulation"}
      /\ SetCart(o.c)
      /\ UNCHANGED <<cycles, stream, budget, debugger>>
      /\ last' = Call("peek", address, 0, o.ret, -1, FALSE, 0)

\* step(), trace(), nextScanline(), nextFrame() after the emulation has run
Return ==
  LET l == lockBankswitchState(Cart, myDataBusLocked)
  IN  /\ position = "running"
      /\ position' = "idle"
      /\ myDataBusLocked' = l.bus
      /\ SetCart(l.c)
      /\ UNCHANGED <<cycles, stream, budget, mySize, myTop, myStateList>>
      /\ last' = Call("return", 0, 0, 0, -1, FALSE, 0)

\* Debugger::reset(), saveState(), loadState(), rewindState() up to the call
\* they make
Begin(op) ==
  LET u == unlockBankswitchState(Cart, myDataBusLocked)
  IN  /\ position = "idle"
      /\ position' = op
      /\ myDataBusLocked' = u.bus
      /\ SetCart(u.c)
      /\ UNCHANGED <<cycles, stream, budget, mySize, myTop, myStateList>>
      /\ last' = Call("begin", 0, 0, 0, -1, FALSE, 0)

\* Debugger::reset(): mySystem.reset(), then the locks
FinishReset ==
  LET l == lockBankswitchState(reset(Cart, cycles, EmptyMem), myDataBusLocked)
  IN  /\ position = "reset"
      /\ position' = "idle"
      /\ myDataBusLocked' = l.bus
      /\ SetCart(l.c)
      /\ UNCHANGED <<cycles, stream, budget, mySize, myTop, myStateList>>
      /\ last' = Call("reset", 0, 0, 0, -1, FALSE, 0)

\* Debugger::saveState(): the state is written to the state file, then the
\* locks
FinishSaveState ==
  LET l == lockBankswitchState(Cart, myDataBusLocked)
  IN  /\ position = "saveState"
      /\ position' = "idle"
      /\ stream' = save(Cart)
      /\ myDataBusLocked' = l.bus
      /\ SetCart(l.c)
      /\ UNCHANGED <<cycles, budget, mySize, myTop, myStateList>>
      /\ last' = Call("saveState", 0, 0, 0, -1, FALSE, 0)

\* Debugger::loadState(): the state file, if there is one, is loaded, then
\* the locks
FinishLoadState ==
  LET o == IF stream = <<>> THEN [c |-> Cart, ret |-> FALSE]
           ELSE load(Cart, stream)
      l == lockBankswitchState(o.c, myDataBusLocked)
  IN  /\ position = "loadState"
      /\ position' = "idle"
      /\ myDataBusLocked' = l.bus
      /\ SetCart(l.c)
      /\ UNCHANGED <<cycles, stream, budget, mySize, myTop, myStateList>>
      /\ last' = Call("loadState", 0, 0, o.ret, -1, FALSE, 0)

\* Debugger::rewindState(): RewindManager::rewindState() loads the state of
\* the slot it steps back to, then the locks. last.address is the slot,
\* last.ret what rewindState() returned.
FinishRewindState ==
  LET r == rewindState(Rewind)
  IN  \E s \in (IF r.ret THEN Dereferenced(myStateList[r.slot]) ELSE {<<>>}) :
        LET o == IF r.ret THEN load(Cart, s) ELSE [c |-> Cart, ret |-> FALSE]
            l == lockBankswitchState(o.c, myDataBusLocked)
        IN  /\ position = "rewindState"
            /\ position' = "idle"
            /\ SetRewind(r.r)
            /\ myDataBusLocked' = l.bus
            /\ SetCart(l.c)
            /\ UNCHANGED <<cycles, stream, budget>>
            /\ last' = Call("rewindState", r.slot, 0, r.ret, -1, FALSE, 0)

\* Debugger::setQuitState(): the locks are released, then one instruction is
\* executed
SetQuitState ==
  LET u == unlockBankswitchState(Cart, myDataBusLocked)
  IN  /\ position = "idle"
      /\ position' = "quit"
      /\ myDataBusLocked' = u.bus
      /\ SetCart(u.c)
      /\ UNCHANGED <<cycles, stream, budget, mySize, myTop, myStateList>>
      /\ last' = Call("setQuitState", 0, 0, 0, -1, FALSE, 0)

\* setQuitState() returns: the emulation goes on
Resume ==
  /\ position = "quit"
  /\ position' = "emulation"
  /\ SetCart(Cart)
  /\ UNCHANGED <<cycles, stream, budget, myDataBusLocked, mySize, myTop,
                 myStateList>>
  /\ last' = Call("resume", 0, 0, 0, -1, FALSE, 0)

\* A debugger session: the debugger is entered, its operations run the
\* emulation (reads of the bank-select hotspots $FF5 and $FFB), save and
\* restore states and rewind, and the debugger is left again.
NextDebugger ==
  \/ SetStartState
  \/ \E op \in {"step", "nextScanline", "nextFrame"} :
       \E written \in {1, StreamFields} : BeginRun(op, written)
  \/ \E g \in {0, 32} : Trace(128, g, StreamFields)
  \/ \E a \in {8181, 8187} : Execute(a, 0)
  \/ Return
  \/ \E op \in {"reset", "saveState", "loadState", "rewindState"} : Begin(op)
  \/ FinishReset
  \/ FinishSaveState
  \/ FinishLoadState
  \/ FinishRewindState
  \/ SetQuitState
  \/ Resume

\* The debugger is entered on a cartridge whose unset fields are zero
InitDebugger == Init /\ myBUSRAM = EmptyMem

SpecDebugger == InitDebugger /\ [][NextDebugger]_vars

\* C33: from setStartState() until setQuitState() the cartridge bank and the
\* data bus are locked whenever no debugger operation is in progress; while
\* reset, step, trace, nextScanline, nextFrame, saveState, loadState or
\* rewindState runs or restores the emulation both are unlocked, and both are
\* locked again when the operation has returned; in and after setQuitState()
\* both are unlocked.
LocksHeld == myBankLocked /\ myDataBusLocked
LocksReleased == ~myBankLocked /\ ~myDataBusLocked
LockProtocol ==
  /\ position = "idle" => LocksHeld
  /\ position \in {"running", "reset", "saveState", "loadState",
                   "rewindState"} => LocksReleased
  /\ position \in {"quit", "emulation"} => LocksReleased

\* A step has saved a rewind level in bank 6, has run the emulation, which
\* switched to bank 0, and has returned: the debugger waits with both locks
\* held
SteppedIntoBankZero ==
  /\ position = "idle"
  /\ last.op = "return"
  /\ myCurrentBank = 0
  /\ mySize > 0
  /\ myStateList[(myTop + MAX_SIZE - 1) % MAX_SIZE][2] = 6
  /\ LocksHeld


\* The rewind levels the manager holds, the oldest first: the mySize slots
\* below myTop, around the end of the array
Levels(r) ==
  [k \in 1..r.mySize |->
     r.myStateList[(r.myTop + MAX_SIZE - r.mySize + k - 1) % MAX_SIZE]]

\* The most recent MAX_SIZE of a sequence of states
Recent(q) ==
  IF Len(q) > MAX_SIZE THEN SubSeq(q, Len(q) - MAX_SIZE + 1, Len(q)) ELSE q

\* A step of the rewind manager seen as a step of a stack of states
StackStep ==
  IF position = "idle" /\ position' = "running"
  THEN last'.ret = TRUE =>
         Levels(Rewind)' = Recent(Append(Levels(Rewind), save(Cart)))
  ELSE IF position = "rewindState"
  THEN IF mySize > 0
       THEN /\ last'.ret = TRUE
            /\ Cart' = lockBankswitchState(
                         load(Cart, Levels(Rewind)[mySize]).c, FALSE).c
            /\ Levels(Rewind)' = SubSeq(Levels(Rewind), 1, mySize - 1)
       ELSE /\ last'.ret = FALSE
            /\ Cart' = lockBankswitchState(Cart, FALSE).c
            /\ Levels(Rewind)' = <<>>
  ELSE IF position = "emulation" /\ position' = "idle"
  THEN Levels(Rewind)' = <<>>
  ELSE Levels(Rewind)' = Levels(Rewind)

\* mySize is in 0..MAX_SIZE, myTop in 0..MAX_SIZE-1, and every level held is
\* a Serializer
RewindInRange ==
  /\ mySize \in 0..MAX_SIZE
  /\ myTop \in 0..(MAX_SIZE - 1)
  /\ \A k \in 1..mySize : Levels(Rewind)[k] # nullptr

\* C34: the rewind manager is a stack of the most recent MAX_SIZE states.
\* setStartState() clears it; a successful addState() pushes the current
\* state and drops the oldest level beyond MAX_SIZE; rewindState() loads the
\* newest level, pops it and returns true, or returns false and loads
\* nothing exactly when no level is held; nothing else changes the levels.
\* mySize stays in 0..MAX_SIZE, myTop in 0..MAX_SIZE-1, and the slot
\* rewindState() reads holds a Serializer.
RewindIsBoundedStack == []RewindInRange /\ [][StackStep]_vars

\* More than MAX_SIZE states were added, and every level still held has been
\* rewound: the last rewind emptied the list with myTop away from slot 0
RewoundAfterOverflow ==
  /\ last.op = "rewindState"
  /\ last.ret = TRUE
  /\ mySize = 0
  /\ myTop # 0

=============================================================================
